---- MODULE Spec2Model ----
(***************************************************************************)
(* Booking admission and capacity validation of the event management      *)
(* backend: the handlers of shared_code/events_crud.py,                    *)
(* shared_code/ticket_crud.py and shared_code/location_crud.py over the    *)
(* four document containers (events, locations, tickets, users).           *)
(*                                                                         *)
(* A request body is a record with a field `has`, the set of the keys the  *)
(* JSON body holds; `k in body` of the source is k \in body.has.           *)
(***************************************************************************)
EXTENDS Integers, Sequences, FiniteSets, TLC

VARIABLES
    events,      \* events container: event_id -> event document
    locations,   \* locations container: location_id -> location document
    tickets,     \* tickets container: ticket_id -> ticket document
    users,       \* users container: user_id -> user document
    nextId,      \* uuid4 source: the ids handed out so far are 1..nextId-1
    last,        \* the call that returned last: its op, its answer, its ids
    pc,          \* per request in flight: the store call it is about to make
    rq           \* per request in flight: its body and the values it has read

vars == <<events, locations, tickets, users, nextId, last, pc, rq>>

(***************************************************************************)
(* Bounds of the model.                                                    *)
(***************************************************************************)
MaxSec == 1        \* wall-clock seconds 0..MaxSec
MaxCap == 2        \* room capacities and max_tick range over 0..MaxCap
MaxIds == 7        \* uuid4 values drawn per behaviour
MaxTickets == 3    \* tickets created per behaviour in the ticket specifications

(***************************************************************************)
(* Timestamps.  A timestamp string is a sequence of character codes.  Its  *)
(* first element stands for the fixed-width, zero-padded field             *)
(* "YYYY-MM-DDTHH:MM:SS" (code 48 + seconds); then an optional fraction    *)
(* "." digit (for ".ffffff"), then the zone: "Z" or "+" digit (for         *)
(* "+0d:00", one model second standing for the hour).                      *)
(***************************************************************************)
ChDot == 46
ChPlus == 43
ChZero == 48
ChZ == 90
FracTicks == 10    \* fraction digits per second in the model

MkDate(sec, frac, off) ==
    <<ChZero + sec>>
    \o (IF frac = 0 THEN <<>> ELSE <<ChDot, ChZero + frac>>)
    \o (IF off = 0 THEN <<ChZ>> ELSE <<ChPlus, ChZero + off>>)

BadDate == <<ChZ>>   \* a string isoparse cannot read

HasFrac(s) == Len(s) >= 2 /\ s[2] = ChDot
ZonePos(s) == IF HasFrac(s) THEN 4 ELSE 2

\* parser.isoparse succeeds
IsIso(s) ==
    /\ Len(s) >= 2
    /\ s[1] >= ChZero
    /\ Len(s) = ZonePos(s) + (IF s[ZonePos(s)] = ChPlus THEN 1 ELSE 0)
    /\ s[ZonePos(s)] \in {ChZ, ChPlus}

\* parser.isoparse(s) as an instant, in fraction ticks since the epoch, UTC
isoparse(s) ==
    LET sec  == s[1] - ChZero
        frac == IF HasFrac(s) THEN s[3] - ChZero ELSE 0
        off  == IF s[ZonePos(s)] = ChPlus THEN s[ZonePos(s) + 1] - ChZero ELSE 0
    IN  (sec - off) * FracTicks + frac

\* format_UTC_0 on a string isoparse reads: convert to UTC, print without the
\* fraction when microsecond == 0 and with it otherwise
format_UTC_0(s) ==
    LET t == isoparse(s)
    IN  MkDate(t \div FracTicks, t % FracTicks, 0)

\* The store's ordering of two strings in a query (c.end_date > @start):
\* ordinal, character by character; a proper prefix sorts first.
RECURSIVE StrLess(_, _)
StrLess(a, b) ==
    IF b = <<>> THEN FALSE
    ELSE IF a = <<>> THEN TRUE
    ELSE IF Head(a) # Head(b) THEN Head(a) < Head(b)
    ELSE StrLess(Tail(a), Tail(b))


(***************************************************************************)
(* Containers.  A container is a function from the key of a document to    *)
(* the document; query_items is a filter over it.                          *)
(***************************************************************************)
Put(store, key, doc) ==
    [k \in DOMAIN store \cup {key} |-> IF k = key THEN doc ELSE store[k]]

Remove(store, keys) == [k \in DOMAIN store \ keys |-> store[k]]

NoId == 0        \* None or an absent key where an id is expected: falsy
NoStr == ""      \* None, "" or an absent key where a string is expected: falsy

\* SELECT * FROM c WHERE c.location_id = @loc_id
LocQuery(locs, location_id) ==
    IF location_id \in DOMAIN locs THEN <<locs[location_id]>> ELSE <<>>

\* SELECT * FROM c WHERE c.user_id = @u_id
UserQuery(usrs, user_id) ==
    IF user_id \in DOMAIN usrs THEN <<usrs[user_id]>> ELSE <<>>

\* SELECT * FROM c WHERE c.event_id = @event_id   (events container)
EventQuery(evs, event_id) ==
    IF event_id \in DOMAIN evs THEN <<evs[event_id]>> ELSE <<>>

\* next((room for room in rooms if room["room_id"] == room_id), None):
\* the index of the first room with the id, 0 for None
SelectedRoom(rooms, room_id) ==
    IF \E i \in 1..Len(rooms) : rooms[i].room_id = room_id
    THEN CHOOSE i \in 1..Len(rooms) :
            /\ rooms[i].room_id = room_id
            /\ \A j \in 1..(i - 1) : rooms[j].room_id # room_id
    ELSE 0

\* The room-conflict query of create_event: the events of the room with
\* c.end_date > @start AND c.start_date < @end, compared as strings
OverlapQuery(evs, location_id, room_id, start, end) ==
    {e \in DOMAIN evs :
        /\ evs[e].location_id = location_id
        /\ evs[e].room_id = room_id
        /\ StrLess(start, evs[e].end_date)
        /\ StrLess(evs[e].start_date, end)}

\* The room-conflict query of update_event: the same, AND c.event_id != @event_id
OverlapQueryExcluding(evs, location_id, room_id, start, end, event_id) ==
    OverlapQuery(evs, location_id, room_id, start, end) \ {event_id}

(***************************************************************************)
(* Schema oracles.  schemas/event.json and schemas/ticket.json are not in  *)
(* the source tree; test_img_url_must_be_valid_or_empty shows the event    *)
(* schema refusing an img_url that is no URI, and every document the       *)
(* handlers build from checked fields is otherwise of the schema's shape.  *)
(***************************************************************************)
GoodUrl == "https://example.com/event.png"
BadUrl == "not a real url"

EventSchemaValid(event_doc) == event_doc.img_url # BadUrl

TicketSchemaValid(ticket_doc) == ticket_doc.validated \in BOOLEAN

(***************************************************************************)
(* create_event                                                            *)
(***************************************************************************)
MandatoryEventFields ==
    {"user_id", "name", "groups", "desc", "location_id", "room_id",
     "start_date", "end_date", "max_tick"}

\* a JSON value that is no number (a string such as "ten") where max_tick is
\* expected, written as an integer that no request of the model uses
NotNumber == -1

\* isinstance(v, (int, float))
IsNumber(v) == v # NotNumber

\* a JSON value that cannot be iterated (a number, true) where a list is
\* expected
NotList == <<"<not a list>">>

\* what "for g in v" accepts
IsList(v) == v # NotList

\* checks 0-2 and the null check of 3: no store is read
CE_FieldError(body) ==
    IF MandatoryEventFields \ body.has # {} THEN "MissingField"
    ELSE IF ~IsIso(body.start_date) \/ ~IsIso(body.end_date) THEN "InvalidDate"
    ELSE IF isoparse(format_UTC_0(body.start_date))
              >= isoparse(format_UTC_0(body.end_date)) THEN "InvalidTimeRange"
    ELSE IF ~IsNumber(body.max_tick) \/ body.max_tick <= 0 THEN "InvalidMaxTick"
    ELSE IF body.location_id = NoId THEN "LocationEmpty"
    ELSE "ok"

\* the body kept as it was sent, the dates not converted
CE_Normalized_Raw(body) == body

\* body["start_date"] = start_utc; body["end_date"] = end_utc
CE_Normalized(body) ==
    [body EXCEPT !.start_date = format_UTC_0(@), !.end_date = format_UTC_0(@)]

CE_LocationError(loc_items) ==
    IF loc_items = <<>> THEN "LocationNotFound" ELSE "ok"

CE_UserError_NoAuth(user_items) ==
    IF user_items = <<>> THEN "UserNotFound"
    ELSE "ok"

CE_UserError(user_items) ==
    IF user_items = <<>> THEN "UserNotFound"
    ELSE IF ~user_items[1].auth THEN "Unauthorized"
    ELSE "ok"

\* check 9: the room exists in location_doc and max_tick <= room.capacity
CE_RoomError(body, location_doc) ==
    LET i == SelectedRoom(location_doc.rooms, body.room_id)
    IN  IF i = 0 THEN "RoomNotFound"
        ELSE IF body.max_tick > location_doc.rooms[i].capacity
             THEN "CapacityExceeded"
        ELSE "ok"

\* a JSON value that is no str (a number, a list, null) where text is expected
NotText == "<not a str>"

\* isinstance(v, str)
IsText(v) == v # NotText

\* the vocabularies, two words of each
valid_groups == {"COMP3200", "Chess Society"}
valid_tags == {"Lecture", "Music"}

\* checks 6-8: name and desc are strings, every group is in valid_groups,
\* and every tag of a non-empty tags list is in valid_tags; the loop over a
\* groups value that cannot be iterated raises TypeError, which the handler
\* catches with "except Exception"
CE_TextError(body) ==
    IF ~IsText(body.name) THEN "InvalidName"
    ELSE IF ~IsText(body.desc) THEN "InvalidDesc"
    ELSE IF ~IsList(body.groups) THEN "InternalError"
    ELSE IF \E i \in 1..Len(body.groups) : body.groups[i] \notin valid_groups
         THEN "InvalidGroup"
    ELSE IF /\ "tags" \in body.has
            /\ \E i \in 1..Len(body.tags) : body.tags[i] \notin valid_tags
         THEN "InvalidTag"
    ELSE "ok"

CE_OverlapError(overlapping_events) ==
    IF overlapping_events # {} THEN "RoomConflict" ELSE "ok"

\* event_doc of create_event, from the normalized body
CE_EventDoc(body, event_id, code) ==
    [event_id    |-> event_id,
     code        |-> code,
     creator_id  |-> <<body.user_id>>,
     name        |-> body.name,
     groups      |-> body.groups,
     desc        |-> body.desc,
     tags        |-> IF "tags" \in body.has THEN body.tags ELSE <<>>,
     location_id |-> body.location_id,
     room_id     |-> body.room_id,
     start_date  |-> body.start_date,
     end_date    |-> body.end_date,
     max_tick    |-> body.max_tick,
     img_url     |-> IF "img_url" \in body.has THEN body.img_url ELSE NoStr]

CE_SchemaError(event_doc) ==
    IF EventSchemaValid(event_doc) THEN "ok" ELSE "SchemaViolation"

\* location_doc with the event appended to its events_ids and to those of
\* every room
CE_LocationWithEvent_AllRooms(location_doc, room_id, event_id) ==
    [location_doc EXCEPT
        !.events_ids = Append(@, event_id),
        !.rooms = [i \in 1..Len(@) |-> [@[i] EXCEPT !.events_ids = Append(@, event_id)]]]

\* location_doc with the event appended to its events_ids and to those of the
\* first room with the id
CE_LocationWithEvent(location_doc, room_id, event_id) ==
    LET i == SelectedRoom(location_doc.rooms, room_id)
    IN  [location_doc EXCEPT
            !.events_ids = Append(@, event_id),
            !.rooms = [@ EXCEPT ![i].events_ids = Append(@, event_id)]]

\* CreateEventError with the user checked before the location
CreateEventError_UserFirst(body, event_id, code) ==
    LET nb == CE_Normalized(body)
        loc_items == LocQuery(locations, body.location_id)
    IN  IF CE_FieldError(body) \notin {"ok", "LocationEmpty"} THEN CE_FieldError(body)
        ELSE IF CE_UserError(UserQuery(users, body.user_id)) # "ok"
             THEN CE_UserError(UserQuery(users, body.user_id))
        ELSE IF CE_FieldError(body) # "ok" THEN CE_FieldError(body)
        ELSE IF CE_LocationError(loc_items) # "ok" THEN CE_LocationError(loc_items)
        ELSE IF CE_TextError(body) # "ok" THEN CE_TextError(body)
        ELSE IF CE_RoomError(nb, loc_items[1]) # "ok"
             THEN CE_RoomError(nb, loc_items[1])
        ELSE IF CE_OverlapError(OverlapQuery(events, nb.location_id, nb.room_id,
                                             nb.start_date, nb.end_date)) # "ok"
             THEN "RoomConflict"
        ELSE CE_SchemaError(CE_EventDoc(nb, event_id, code))

\* The first failing check of a create_event call run alone against the
\* stores, "ok" when none fails.  event_id and code are the values drawn.
CreateEventError(body, event_id, code) ==
    LET nb == CE_Normalized(body)
        loc_items == LocQuery(locations, body.location_id)
    IN  IF CE_FieldError(body) # "ok" THEN CE_FieldError(body)
        ELSE IF CE_LocationError(loc_items) # "ok" THEN CE_LocationError(loc_items)
        ELSE IF CE_UserError(UserQuery(users, body.user_id)) # "ok"
             THEN CE_UserError(UserQuery(users, body.user_id))
        ELSE IF CE_TextError(body) # "ok" THEN CE_TextError(body)
        ELSE IF CE_RoomError(nb, loc_items[1]) # "ok"
             THEN CE_RoomError(nb, loc_items[1])
        ELSE IF CE_OverlapError(OverlapQuery(events, nb.location_id, nb.room_id,
                                             nb.start_date, nb.end_date)) # "ok"
             THEN "RoomConflict"
        ELSE CE_SchemaError(CE_EventDoc(nb, event_id, code))

Returned(op, err, event_id, ticket_id, user_id, email) ==
    [op |-> op, err |-> err, event_id |-> event_id, ticket_id |-> ticket_id,
     user_id |-> user_id, email |-> email, new_admin_id |-> NoStr]

Codes == {"K7Q2ZD"}

\* create_event with create_item moved ahead of the schema validation
create_event_InsertFirst(body) ==
    \E code \in Codes :
        LET event_id == nextId
            err == CreateEventError(body, event_id, code)
            nb  == CE_Normalized(body)
        IN  /\ IF err \notin {"ok", "SchemaViolation"}
               THEN /\ last' = Returned("create_event", err, NoId, NoId,
                                        body.user_id, NoStr)
                    /\ UNCHANGED <<events, locations, nextId>>
               ELSE /\ nextId <= MaxIds
                    /\ events' = Put(events, event_id, CE_EventDoc(nb, event_id, code))
                    /\ locations' = IF err = "ok"
                                    THEN Put(locations, nb.location_id,
                                             CE_LocationWithEvent(locations[nb.location_id],
                                                                  nb.room_id, event_id))
                                    ELSE locations
                    /\ nextId' = nextId + 1
                    /\ last' = Returned("create_event", err,
                                        IF err = "ok" THEN event_id ELSE NoId, NoId,
                                        body.user_id, NoStr)
            /\ UNCHANGED <<tickets, users, pc, rq>>

create_event(body) ==
    \E code \in Codes :
        LET event_id == nextId
            err == CreateEventError(body, event_id, code)
            nb  == CE_Normalized(body)
        IN  /\ IF err # "ok"
               THEN /\ last' = Returned("create_event", err, NoId, NoId,
                                        body.user_id, NoStr)
                    /\ UNCHANGED <<events, locations, nextId>>
               ELSE /\ nextId <= MaxIds
                    /\ events' = Put(events, event_id, CE_EventDoc(nb, event_id, code))
                    /\ locations' = Put(locations, nb.location_id,
                           CE_LocationWithEvent(locations[nb.location_id],
                                                nb.room_id, event_id))
                    /\ nextId' = nextId + 1
                    /\ last' = Returned("create_event", "ok", event_id, NoId,
                                        body.user_id, NoStr)
            /\ UNCHANGED <<tickets, users, pc, rq>>


(***************************************************************************)
(* update_event                                                            *)
(***************************************************************************)
\* the merge with every key of the body copied, code and creator_id too
UE_Merged_AllKeys(event_doc, body) ==
    [event_doc EXCEPT
        !.location_id = IF "location_id" \in body.has THEN body.location_id ELSE @,
        !.room_id     = IF "room_id" \in body.has THEN body.room_id ELSE @,
        !.start_date  = IF "start_date" \in body.has THEN body.start_date ELSE @,
        !.end_date    = IF "end_date" \in body.has THEN body.end_date ELSE @,
        !.max_tick    = IF "max_tick" \in body.has THEN body.max_tick ELSE @,
        !.img_url     = IF "img_url" \in body.has THEN body.img_url ELSE @,
        !.code        = IF "code" \in body.has THEN body.code ELSE @,
        !.creator_id  = IF "creator_id" \in body.has THEN body.creator_id ELSE @]

\* for field in updatable_fields: if field in body: event_doc[field] = body[field]
UE_Merged(event_doc, body) ==
    [event_doc EXCEPT
        !.location_id = IF "location_id" \in body.has THEN body.location_id ELSE @,
        !.room_id     = IF "room_id" \in body.has THEN body.room_id ELSE @,
        !.start_date  = IF "start_date" \in body.has THEN body.start_date ELSE @,
        !.end_date    = IF "end_date" \in body.has THEN body.end_date ELSE @,
        !.max_tick    = IF "max_tick" \in body.has THEN body.max_tick ELSE @,
        !.img_url     = IF "img_url" \in body.has THEN body.img_url ELSE @]

UE_UserError(user_items) ==
    IF user_items = <<>> THEN "UserNotFound"
    ELSE IF ~user_items[1].auth THEN "Unauthorized"
    ELSE "ok"

\* validations (i) and (ii) of the merged document; "<=" between a max_tick
\* that is no number and 0 raises TypeError, which the handler catches with
\* "except Exception"
UE_FieldError(event_doc) ==
    IF ~IsIso(event_doc.start_date) \/ ~IsIso(event_doc.end_date) THEN "InvalidDate"
    ELSE IF isoparse(format_UTC_0(event_doc.start_date))
              >= isoparse(format_UTC_0(event_doc.end_date)) THEN "InvalidTimeRange"
    ELSE IF ~IsNumber(event_doc.max_tick) THEN "InternalError"
    ELSE IF event_doc.max_tick <= 0 THEN "InvalidMaxTick"
    ELSE "ok"

\* validation (iii): location_id not null and in the store
UE_LocationError(event_doc, locs) ==
    IF event_doc.location_id = NoId THEN "LocationEmpty"
    ELSE IF LocQuery(locs, event_doc.location_id) = <<>> THEN "LocationNotFound"
    ELSE "ok"

\* validation (iv): img_url is a URL or empty
UE_UrlError(event_doc) ==
    IF event_doc.img_url = BadUrl THEN "InvalidUrl" ELSE "ok"

\* the room validation runs only for a patch naming one of these keys
UE_RoomGuard(body) == body.has \cap {"room_id", "location_id", "max_tick"} # {}

\* the time-conflict query runs, inside the room validation, only for these
UE_OverlapGuard(body) == body.has \cap {"room_id", "start_date", "end_date"} # {}

\* the room validation of the merged document against the stores
UE_RoomError(event_doc, body, locs, evs) ==
    IF ~UE_RoomGuard(body) THEN "ok"
    ELSE
      LET loc_items == LocQuery(locs, event_doc.location_id)
      IN  IF loc_items = <<>> THEN "LocationNotFound"
          ELSE
            LET rooms == loc_items[1].rooms
                i == SelectedRoom(rooms, event_doc.room_id)
            IN  IF i = 0 THEN "RoomNotFound"
                ELSE IF event_doc.max_tick > rooms[i].capacity THEN "CapacityExceeded"
                ELSE IF /\ UE_OverlapGuard(body)
                        /\ OverlapQueryExcluding(evs, event_doc.location_id,
                               event_doc.room_id, event_doc.start_date,
                               event_doc.end_date, event_doc.event_id) # {}
                     THEN "RoomConflict"
                ELSE "ok"

\* The first failing check of an update_event call run alone against the
\* stores, "ok" when none fails.
UpdateEventError(body) ==
    IF body.event_id = NoId \/ body.user_id = NoStr THEN "MissingField"
    ELSE IF EventQuery(events, body.event_id) = <<>> THEN "EventNotFound"
    ELSE IF UE_UserError(UserQuery(users, body.user_id)) # "ok"
         THEN UE_UserError(UserQuery(users, body.user_id))
    ELSE
      LET event_doc == UE_Merged(events[body.event_id], body)
      IN  IF UE_FieldError(event_doc) # "ok" THEN UE_FieldError(event_doc)
          ELSE IF UE_LocationError(event_doc, locations) # "ok"
               THEN UE_LocationError(event_doc, locations)
          ELSE IF UE_UrlError(event_doc) # "ok" THEN UE_UrlError(event_doc)
          ELSE IF UE_RoomError(event_doc, body, locations, events) # "ok"
               THEN UE_RoomError(event_doc, body, locations, events)
          ELSE IF ~EventSchemaValid(event_doc) THEN "SchemaViolation"
          ELSE "ok"

update_event(body) ==
    LET err == UpdateEventError(body)
    IN  /\ events' = IF err = "ok"
                     THEN Put(events, body.event_id,
                              UE_Merged(events[body.event_id], body))
                     ELSE events
        /\ last' = Returned("update_event", err, body.event_id, NoId,
                            body.user_id, NoStr)
        /\ UNCHANGED <<locations, tickets, users, nextId, pc, rq>>


(***************************************************************************)
(* delete_event, run alone and with no store fault                         *)
(***************************************************************************)
\* SELECT * FROM c WHERE c.event_id = @event_id   (tickets container)
TicketsOfEvent(tks, event_id) == {t \in DOMAIN tks : tks[t].event_id = event_id}

\* delete_event asking for auth alone
DE_Forbidden_AuthOnly(user_doc, event_doc, user_id) == ~user_doc.auth

\* not user_doc.get("auth") and user_id not in event_doc.get("creator_id")
DE_Forbidden(user_doc, event_doc, user_id) ==
    /\ ~user_doc.auth
    /\ \A i \in 1..Len(event_doc.creator_id) : event_doc.creator_id[i] # user_id

DeleteEventError(body) ==
    IF body.event_id = NoId \/ body.user_id = NoStr THEN "MissingField"
    ELSE IF EventQuery(events, body.event_id) = <<>> THEN "EventNotFound"
    ELSE IF UserQuery(users, body.user_id) = <<>> THEN "UserNotFound"
    ELSE IF DE_Forbidden(users[body.user_id], events[body.event_id], body.user_id)
         THEN "Forbidden"
    ELSE "ok"

delete_event(body) ==
    LET err == DeleteEventError(body)
    IN  /\ IF err = "ok"
           THEN /\ tickets' = Remove(tickets, TicketsOfEvent(tickets, body.event_id))
                /\ events' = Remove(events, {body.event_id})
           ELSE UNCHANGED <<events, tickets>>
        /\ last' = Returned("delete_event", err, body.event_id, NoId,
                            body.user_id, NoStr)
        /\ UNCHANGED <<locations, users, nextId, pc, rq>>

(***************************************************************************)
(* grant_event_adminship                                                   *)
(***************************************************************************)
\* x in list
InList(x, list) == \E i \in 1..Len(list) : list[i] = x

\* event_doc["creator_id"].append(new_admin_id), whatever the list holds
GA_WithAdmin_AlwaysAppend(event_doc, new_admin_id) ==
    [event_doc EXCEPT !.creator_id = Append(@, new_admin_id)]

\* if new_admin_id not in event_doc["creator_id"]: append it
GA_WithAdmin(event_doc, new_admin_id) ==
    IF InList(new_admin_id, event_doc.creator_id) THEN event_doc
    ELSE [event_doc EXCEPT !.creator_id = Append(@, new_admin_id)]

\* grant_event_adminship without the check of the caller
GrantAdminError_AnyCaller(body) ==
    IF \/ {"creator_id", "new_admin_id", "event_id"} \ body.has # {}
       \/ body.creator_id = NoStr \/ body.new_admin_id = NoStr
       \/ body.event_id = NoId
    THEN "MissingField"
    ELSE IF EventQuery(events, body.event_id) = <<>> THEN "EventNotFound"
    ELSE IF /\ ~InList(body.new_admin_id, events[body.event_id].creator_id)
            /\ ~EventSchemaValid(GA_WithAdmin(events[body.event_id], body.new_admin_id))
         THEN "SchemaViolation"
    ELSE "ok"

GrantAdminError(body) ==
    IF \/ {"creator_id", "new_admin_id", "event_id"} \ body.has # {}
       \/ body.creator_id = NoStr \/ body.new_admin_id = NoStr
       \/ body.event_id = NoId
    THEN "MissingField"
    ELSE IF EventQuery(events, body.event_id) = <<>> THEN "EventNotFound"
    ELSE IF ~InList(body.creator_id, events[body.event_id].creator_id)
         THEN "Forbidden"
    ELSE IF /\ ~InList(body.new_admin_id, events[body.event_id].creator_id)
            /\ ~EventSchemaValid(GA_WithAdmin(events[body.event_id], body.new_admin_id))
         THEN "SchemaViolation"
    ELSE "ok"

grant_event_adminship(body) ==
    LET err == GrantAdminError(body)
    IN  /\ events' = IF err = "ok"
                     THEN Put(events, body.event_id,
                              GA_WithAdmin(events[body.event_id], body.new_admin_id))
                     ELSE events
        /\ last' = [Returned("grant_event_adminship", err, body.event_id, NoId,
                             body.creator_id, NoStr)
                       EXCEPT !.new_admin_id = body.new_admin_id]
        /\ UNCHANGED <<locations, tickets, users, nextId, pc, rq>>

(***************************************************************************)
(* create_ticket, update_ticket, delete_ticket                             *)
(***************************************************************************)
\* jsonschema.validate of {"email": email} against {"format": "email"}: the
\* call passes no format_checker, so any string is accepted
EmailShapeValid(email) == IsText(email)

\* SELECT * FROM c WHERE c.event_id = @event_id AND c.email = @email
EmailQuery(tks, event_id, email) ==
    {t \in DOMAIN tks : tks[t].event_id = event_id /\ tks[t].email = email}

\* the same, AND c.ticket_id != @tid
EmailQueryExcluding(tks, event_id, email, ticket_id) ==
    EmailQuery(tks, event_id, email) \ {ticket_id}

\* SELECT VALUE COUNT(1) FROM c WHERE c.event_id = @event_id
TicketsCount(tks, event_id) == Cardinality(TicketsOfEvent(tks, event_id))

CT_FieldError(body) ==
    IF {"user_id", "event_id", "email"} \ body.has # {} THEN "MissingField"
    ELSE IF ~EmailShapeValid(body.email) THEN "InvalidEmail"
    ELSE "ok"

CT_EmailError(existing_email) ==
    IF existing_email # {} THEN "DuplicateEmail" ELSE "ok"

CT_UserError(user_items) ==
    IF user_items = <<>> THEN "UserNotFound" ELSE "ok"

CT_EventError(event_items) ==
    IF event_items = <<>> THEN "EventNotFound" ELSE "ok"

\* the gate with tickets_count > max_tickets
CT_CapacityError_Strict(tickets_count, max_tickets) ==
    IF tickets_count > max_tickets THEN "EventFull" ELSE "ok"

\* tickets_count >= max_tickets
CT_CapacityError(tickets_count, max_tickets) ==
    IF tickets_count >= max_tickets THEN "EventFull" ELSE "ok"

CT_TicketDoc(body, ticket_id) ==
    [ticket_id |-> ticket_id,
     user_id   |-> body.user_id,
     event_id  |-> body.event_id,
     validated |-> FALSE,
     email     |-> body.email]

\* create_ticket with the user lookup moved ahead of the duplicate-email query
CreateTicketError_UserFirst(body, ticket_id) ==
    IF CT_FieldError(body) # "ok" THEN CT_FieldError(body)
    ELSE IF CT_UserError(UserQuery(users, body.user_id)) # "ok" THEN "UserNotFound"
    ELSE IF CT_EmailError(EmailQuery(tickets, body.event_id, body.email)) # "ok"
         THEN "DuplicateEmail"
    ELSE IF CT_EventError(EventQuery(events, body.event_id)) # "ok"
         THEN "EventNotFound"
    ELSE IF CT_CapacityError(TicketsCount(tickets, body.event_id),
                             events[body.event_id].max_tick) # "ok"
         THEN "EventFull"
    ELSE IF ~TicketSchemaValid(CT_TicketDoc(body, ticket_id)) THEN "SchemaViolation"
    ELSE "ok"

\* create_ticket with the event lookup moved ahead of the user lookup
CreateTicketError_EventFirst(body, ticket_id) ==
    IF CT_FieldError(body) # "ok" THEN CT_FieldError(body)
    ELSE IF CT_EmailError(EmailQuery(tickets, body.event_id, body.email)) # "ok"
         THEN "DuplicateEmail"
    ELSE IF CT_EventError(EventQuery(events, body.event_id)) # "ok"
         THEN "EventNotFound"
    ELSE IF CT_UserError(UserQuery(users, body.user_id)) # "ok" THEN "UserNotFound"
    ELSE IF CT_CapacityError(TicketsCount(tickets, body.event_id),
                             events[body.event_id].max_tick) # "ok"
         THEN "EventFull"
    ELSE IF ~TicketSchemaValid(CT_TicketDoc(body, ticket_id)) THEN "SchemaViolation"
    ELSE "ok"

\* The first failing check of a create_ticket call run alone against the
\* stores, "ok" when none fails.
CreateTicketError(body, ticket_id) ==
    IF CT_FieldError(body) # "ok" THEN CT_FieldError(body)
    ELSE IF CT_EmailError(EmailQuery(tickets, body.event_id, body.email)) # "ok"
         THEN "DuplicateEmail"
    ELSE IF CT_UserError(UserQuery(users, body.user_id)) # "ok" THEN "UserNotFound"
    ELSE IF CT_EventError(EventQuery(events, body.event_id)) # "ok"
         THEN "EventNotFound"
    ELSE IF CT_CapacityError(TicketsCount(tickets, body.event_id),
                             events[body.event_id].max_tick) # "ok"
         THEN "EventFull"
    ELSE IF ~TicketSchemaValid(CT_TicketDoc(body, ticket_id)) THEN "SchemaViolation"
    ELSE "ok"

create_ticket(body) ==
    LET ticket_id == nextId
        err == CreateTicketError(body, ticket_id)
    IN  /\ IF err # "ok"
           THEN /\ last' = Returned("create_ticket", err, body.event_id, NoId,
                                    body.user_id, body.email)
                /\ UNCHANGED <<tickets, nextId>>
           ELSE /\ nextId <= MaxIds
                /\ tickets' = Put(tickets, ticket_id, CT_TicketDoc(body, ticket_id))
                /\ nextId' = nextId + 1
                /\ last' = Returned("create_ticket", "ok", body.event_id, ticket_id,
                                    body.user_id, body.email)
        /\ UNCHANGED <<events, locations, users, pc, rq>>

UT_Merged(ticket_doc, body) ==
    [ticket_doc EXCEPT
        !.email     = IF "email" \in body.has THEN body.email ELSE @,
        !.validated = IF "validated" \in body.has THEN body.validated ELSE @]

UpdateTicketError(body) ==
    IF body.ticket_id = NoId THEN "MissingField"
    ELSE IF body.ticket_id \notin DOMAIN tickets THEN "TicketNotFound"
    ELSE IF "email" \in body.has /\ ~EmailShapeValid(body.email) THEN "InvalidEmail"
    ELSE IF /\ "email" \in body.has
            /\ EmailQueryExcluding(tickets, tickets[body.ticket_id].event_id,
                                   body.email, body.ticket_id) # {}
         THEN "DuplicateEmail"
    ELSE IF "validated" \in body.has /\ body.validated \notin BOOLEAN
         THEN "InvalidValidated"
    ELSE IF body.has \cap {"email", "validated"} = {} THEN "NothingToUpdate"
    ELSE IF ~TicketSchemaValid(UT_Merged(tickets[body.ticket_id], body))
         THEN "SchemaViolation"
    ELSE "ok"

update_ticket(body) ==
    LET err == UpdateTicketError(body)
    IN  /\ tickets' = IF err = "ok"
                      THEN Put(tickets, body.ticket_id,
                               UT_Merged(tickets[body.ticket_id], body))
                      ELSE tickets
        /\ last' = Returned("update_ticket", err, NoId, body.ticket_id, NoStr,
                            IF "email" \in body.has THEN body.email ELSE NoStr)
        /\ UNCHANGED <<events, locations, users, nextId, pc, rq>>

\* validate_ticket with the code compared before the owner
ValidateTicketError_CodeFirst(body) ==
    IF \/ {"ticket_id", "user_id", "code"} \ body.has # {}
       \/ body.ticket_id = NoId \/ body.user_id = NoStr \/ body.code = NoStr
    THEN "MissingField"
    ELSE IF body.ticket_id \notin DOMAIN tickets THEN "TicketNotFound"
    ELSE IF EventQuery(events, tickets[body.ticket_id].event_id) = <<>>
         THEN "EventNotFound"
    ELSE IF events[tickets[body.ticket_id].event_id].code # body.code
         THEN "InvalidCode"
    ELSE IF tickets[body.ticket_id].user_id # body.user_id THEN "NotOwner"
    ELSE IF ~TicketSchemaValid([tickets[body.ticket_id] EXCEPT !.validated = TRUE])
         THEN "SchemaViolation"
    ELSE "ok"

\* validate_ticket: ticket_id, user_id and code given, the ticket exists and
\* is the user's, its event exists and has the code
ValidateTicketError(body) ==
    IF \/ {"ticket_id", "user_id", "code"} \ body.has # {}
       \/ body.ticket_id = NoId \/ body.user_id = NoStr \/ body.code = NoStr
    THEN "MissingField"
    ELSE IF body.ticket_id \notin DOMAIN tickets THEN "TicketNotFound"
    ELSE IF tickets[body.ticket_id].user_id # body.user_id THEN "NotOwner"
    ELSE IF EventQuery(events, tickets[body.ticket_id].event_id) = <<>>
         THEN "EventNotFound"
    ELSE IF events[tickets[body.ticket_id].event_id].code # body.code
         THEN "InvalidCode"
    ELSE IF ~TicketSchemaValid([tickets[body.ticket_id] EXCEPT !.validated = TRUE])
         THEN "SchemaViolation"
    ELSE "ok"

validate_ticket(body) ==
    LET err == ValidateTicketError(body)
    IN  /\ tickets' = IF err = "ok"
                      THEN Put(tickets, body.ticket_id,
                               [tickets[body.ticket_id] EXCEPT !.validated = TRUE])
                      ELSE tickets
        /\ last' = Returned("validate_ticket", err, NoId, body.ticket_id,
                            body.user_id, NoStr)
        /\ UNCHANGED <<events, locations, users, nextId, pc, rq>>

DeleteTicketError(ticket_id) ==
    IF ticket_id = NoId THEN "MissingField"
    ELSE IF ticket_id \notin DOMAIN tickets THEN "TicketNotFound"
    ELSE "ok"

delete_ticket(ticket_id) ==
    LET err == DeleteTicketError(ticket_id)
    IN  /\ tickets' = IF err = "ok" THEN Remove(tickets, {ticket_id}) ELSE tickets
        /\ last' = Returned("delete_ticket", err, NoId, ticket_id, NoStr, NoStr)
        /\ UNCHANGED <<events, locations, users, nextId, pc, rq>>


(***************************************************************************)
(* create_location, edit_location, delete_location                         *)
(***************************************************************************)
\* schemas/location.json is not in the source tree: a rooms array of objects
\* with a numeric capacity is of its shape
LocationSchemaValid(location_doc) ==
    \A i \in 1..Len(location_doc.rooms) : location_doc.rooms[i].capacity \in Nat

\* SELECT * FROM c WHERE c.location_name = @loc_name
LocNameQuery(locs, location_name) ==
    {l \in DOMAIN locs : locs[l].location_name = location_name}

\* for room in rooms: room["room_id"] = str(uuid.uuid4()), the ids drawn in
\* order from first
CL_RoomsWithIds(rooms, first) ==
    [i \in 1..Len(rooms) |-> [rooms[i] EXCEPT !.room_id = first + i - 1]]

CL_LocationDoc(body, location_id) ==
    [location_id   |-> location_id,
     location_name |-> body.location_name,
     events_ids    |-> body.events_ids,
     rooms         |-> CL_RoomsWithIds(body.rooms, location_id + 1)]

CreateLocationError(body) ==
    IF {"location_name", "rooms"} \ body.has # {} THEN "MissingField"
    ELSE IF LocNameQuery(locations, body.location_name) # {} THEN "DuplicateName"
    ELSE IF ~LocationSchemaValid(body) THEN "SchemaViolation"
    ELSE IF "events_ids" \notin body.has THEN "InternalError"   \* body["events_ids"]
    ELSE "ok"

create_location(body) ==
    LET err == CreateLocationError(body)
        location_id == nextId
    IN  /\ IF err # "ok"
           THEN UNCHANGED <<locations, nextId>>
           ELSE /\ nextId + Len(body.rooms) <= MaxIds
                /\ locations' = Put(locations, location_id,
                                    CL_LocationDoc(body, location_id))
                /\ nextId' = nextId + 1 + Len(body.rooms)
        /\ last' = Returned("create_location", err, NoId, NoId, NoStr, NoStr)
        /\ UNCHANGED <<events, tickets, users, pc, rq>>

\* for key in updatable_keys: if key in body: location_doc[key] = body[key]
EL_Merged(location_doc, body) ==
    [location_doc EXCEPT
        !.location_name = IF "location_name" \in body.has
                          THEN body.location_name ELSE @,
        !.events_ids    = IF "events_ids" \in body.has THEN body.events_ids ELSE @,
        !.rooms         = IF "rooms" \in body.has THEN body.rooms ELSE @]

EditLocationError(body) ==
    IF body.location_id = NoId THEN "MissingField"
    ELSE IF LocQuery(locations, body.location_id) = <<>> THEN "LocationNotFound"
    ELSE IF ~LocationSchemaValid(EL_Merged(locations[body.location_id], body))
         THEN "SchemaViolation"
    ELSE "ok"

edit_location(body) ==
    LET err == EditLocationError(body)
    IN  /\ locations' = IF err = "ok"
                        THEN Put(locations, body.location_id,
                                 EL_Merged(locations[body.location_id], body))
                        ELSE locations
        /\ last' = Returned("edit_location", err, NoId, NoId, NoStr, NoStr)
        /\ UNCHANGED <<events, tickets, users, nextId, pc, rq>>


(***************************************************************************)
(* Initial state: the users are registered, and one location with two      *)
(* rooms has been created by create_location (ids 1, 2 and 3 drawn).       *)
(***************************************************************************)
InitUsers ==
    [u \in {"admin", "staff", "student"} |-> [user_id |-> u, auth |-> (u # "student")]]

Room(room_id, capacity) ==
    [room_id |-> room_id, capacity |-> capacity, events_ids |-> <<>>]

InitLocationBody ==
    [has |-> {"location_name", "rooms", "events_ids"},
     location_id |-> NoId, location_name |-> "Building 32", events_ids |-> <<>>,
     rooms |-> <<Room(NoId, MaxCap), Room(NoId, 1)>>]

InitLocation == CL_LocationDoc(InitLocationBody, 1)

Init ==
    /\ events = <<>>
    /\ tickets = <<>>
    /\ users = InitUsers
    /\ locations = Put(<<>>, 1, InitLocation)
    /\ nextId = 2 + Len(InitLocationBody.rooms)
    /\ last = Returned("none", "ok", NoId, NoId, NoStr, NoStr)
    /\ pc = <<>>
    /\ rq = <<>>

(***************************************************************************)
(* get_ticket, get_event.  The answer of a read is a value, so each is an  *)
(* operator over the stores it queries; the action records the call.       *)
(***************************************************************************)
\* get_ticket: the tickets of an event, of a user, or of a user for an
\* event.  With both given the answer is 200 whether or not a ticket matches
\* (body.subscribed tells which).
get_ticket(tks, event_id, user_id) ==
    IF event_id # NoId /\ user_id = NoStr
    THEN [err |-> "ok", items |-> TicketsOfEvent(tks, event_id)]
    ELSE IF user_id # NoStr /\ event_id = NoId
    THEN [err |-> "ok", items |-> {t \in DOMAIN tks : tks[t].user_id = user_id}]
    ELSE IF event_id # NoId /\ user_id # NoStr
    THEN [err |-> "ok",
          items |-> {t \in DOMAIN tks :
                        tks[t].event_id = event_id /\ tks[t].user_id = user_id}]
    ELSE [err |-> "MissingField", items |-> {}]

\* event["location_name"] = location.get("location_name") when the location
\* of the event is found (the rooms of the model carry no room_name)
GE_WithNames(event_doc, locs) ==
    IF event_doc.location_id # NoId /\ event_doc.location_id \in DOMAIN locs
    THEN [location_name |-> locs[event_doc.location_id].location_name] @@ event_doc
    ELSE event_doc

\* get_event: the answer to user_id, event_id and code, each of them
\* possibly absent (NoStr, NoId).  The branch on code comes after the four
\* combinations of user_id and event_id, in the order of the source.
GetEventResult(evs, tks, usrs, locs, args) ==
    IF args.user_id # NoStr /\ UserQuery(usrs, args.user_id) = <<>>
    THEN [err |-> "UserNotFound", events |-> {}]
    ELSE IF args.event_id # NoId /\ EventQuery(evs, args.event_id) = <<>>
    THEN [err |-> "EventNotFound", events |-> {}]
    ELSE IF args.user_id = NoStr /\ args.event_id = NoId
    THEN IF DOMAIN evs = {} THEN [err |-> "NoEvents", events |-> {}]
         ELSE [err |-> "ok", events |-> {evs[e] : e \in DOMAIN evs}]
    ELSE IF args.event_id = NoId
    THEN [err |-> "ok",
          events |-> {evs[tks[t].event_id] :
                        t \in {u \in get_ticket(tks, NoId, args.user_id).items :
                                  tks[u].event_id \in DOMAIN evs}}]
    ELSE IF args.user_id = NoStr
    THEN [err |-> "ok", events |-> {GE_WithNames(evs[args.event_id], locs)}]
    ELSE IF args.user_id # NoStr /\ args.event_id # NoId
    THEN IF get_ticket(tks, args.event_id, args.user_id).err # "ok"
         THEN [err |-> get_ticket(tks, args.event_id, args.user_id).err, events |-> {}]
         ELSE [err |-> "ok", events |-> {GE_WithNames(evs[args.event_id], locs)}]
    ELSE IF args.code # NoStr
    THEN IF {e \in DOMAIN evs : evs[e].code = args.code} = {}
         THEN [err |-> "CodeNotFound", events |-> {}]
         ELSE [err |-> "ok",
               events |-> {evs[CHOOSE e \in DOMAIN evs : evs[e].code = args.code]}]
    ELSE [err |-> "InvalidInputs", events |-> {}]

get_event(args) ==
    /\ last' = Returned("get_event",
                        GetEventResult(events, tickets, users, locations, args).err,
                        args.event_id, NoId, args.user_id, NoStr)
    /\ UNCHANGED <<events, locations, tickets, users, nextId, pc, rq>>

(***************************************************************************)
(* Requests.                                                               *)
(***************************************************************************)
EventBody(has, user_id, location_id, room_id, start_date, end_date, max_tick, img_url) ==
    [has |-> has, event_id |-> NoId, user_id |-> user_id,
     name |-> "Open day", desc |-> "Tour of the labs", groups |-> <<"COMP3200">>,
     tags |-> <<>>,
     location_id |-> location_id, room_id |-> room_id,
     start_date |-> start_date, end_date |-> end_date,
     max_tick |-> max_tick, img_url |-> img_url]

\* a patch of update_event: the keys it names and their values
Patch(event_id, user_id, keys, location_id, room_id, start_date, end_date, max_tick) ==
    [has |-> keys \cup {"event_id", "user_id"}, event_id |-> event_id,
     user_id |-> user_id, location_id |-> location_id, room_id |-> room_id,
     start_date |-> start_date, end_date |-> end_date, max_tick |-> max_tick,
     img_url |-> NoStr]

AllEventKeys == MandatoryEventFields \cup {"img_url"}

\* an event id that names no event
NoSuchId == MaxIds + 1

(***************************************************************************)
(* Spec: create_event and update_event called one after the other, over    *)
(* every room and time range.                                              *)
(***************************************************************************)
MaxEvents == 2

\* timestamps in UTC: whole seconds, and one with a fraction
UtcDates == {MkDate(sec, 0, 0) : sec \in 0..MaxSec} \cup {MkDate(1, 5, 0)}

\* and one written in another zone (the instant MaxSec - 1)
RawDates == UtcDates \cup {MkDate(MaxSec, 0, 1)}

CreateEventBodies ==
    {EventBody(MandatoryEventFields, "admin", 1, room_id, start_date, end_date,
               1, NoStr) :
        room_id \in {2, 3}, start_date \in RawDates, end_date \in RawDates}

UpdateEventBodies ==
    LET d0 == MkDate(0, 0, 0)
    IN  {Patch(e, "admin", {"room_id"}, NoId, r, d0, d0, 0) :
            e \in DOMAIN events, r \in {2, 3, NoSuchId}}
        \cup {Patch(e, "admin", {"location_id"}, l, NoId, d0, d0, 0) :
            e \in DOMAIN events, l \in {1, NoId, NoSuchId}}
        \cup {Patch(e, "admin", {"start_date"}, NoId, NoId, d, d0, 0) :
            e \in DOMAIN events, d \in RawDates \cup {BadDate}}
        \cup {Patch(e, "admin", {"end_date"}, NoId, NoId, d0, d, 0) :
            e \in DOMAIN events, d \in RawDates}
        \cup {Patch(e, "admin", {"room_id", "start_date", "end_date"}, NoId, r, d1, d2, 0) :
            e \in DOMAIN events, r \in {2, 3},
            d1 \in {MkDate(sec, 0, 0) : sec \in 0..MaxSec},
            d2 \in {MkDate(sec, 0, 0) : sec \in 0..MaxSec}}

CreateEvent ==
    /\ Cardinality(DOMAIN events) < MaxEvents
    /\ \E body \in CreateEventBodies : create_event(body)

UpdateEvent ==
    \E body \in UpdateEventBodies : update_event(body)

Next ==
    \/ CreateEvent
    \/ UpdateEvent

Spec == Init /\ [][Next]_vars


(***************************************************************************)
(* SpecCapacity: create_event, update_event, create_location and           *)
(* edit_location called one after the other, over every max_tick and room  *)
(* capacity; the time ranges are two back-to-back ones.                    *)
(***************************************************************************)
RoomIdsOf(locs) ==
    UNION {{locs[l].rooms[i].room_id : i \in 1..Len(locs[l].rooms)} : l \in DOMAIN locs}

CapCreateEventBodies ==
    {EventBody(MandatoryEventFields, "admin", location_id, room_id, MkDate(0, 0, 0),
               end_date, max_tick, NoStr) :
        location_id \in DOMAIN locations, room_id \in RoomIdsOf(locations),
        end_date \in {MkDate(1, 0, 0)}, max_tick \in 1..MaxCap + 1}

CapUpdateEventBodies ==
    LET d0 == MkDate(0, 0, 0)
    IN  {Patch(e, "admin", {"max_tick"}, NoId, NoId, d0, d0, m) :
            e \in DOMAIN events, m \in 0..MaxCap + 1}
        \cup {Patch(e, "admin", {"room_id"}, NoId, r, d0, d0, 0) :
            e \in DOMAIN events, r \in RoomIdsOf(locations)}
        \cup {Patch(e, "admin", {"location_id"}, l, NoId, d0, d0, 0) :
            e \in DOMAIN events, l \in DOMAIN locations}
        \cup {Patch(e, "admin", {"end_date"}, NoId, NoId, d0, MkDate(1, 5, 0), 0) :
            e \in DOMAIN events}

\* the rooms a caller of edit_location may send for location 1: its rooms
\* with any capacities, all but the last of them, or the rooms it began with
DeleteLocationError(location_id) ==
    IF location_id = NoId THEN "MissingField"
    ELSE IF LocQuery(locations, location_id) = <<>> THEN "LocationNotFound"
    ELSE "ok"

delete_location(location_id) ==
    LET err == DeleteLocationError(location_id)
    IN  /\ locations' = IF err = "ok" THEN Remove(locations, {location_id})
                        ELSE locations
        /\ last' = Returned("delete_location", err, NoId, NoId, NoStr, NoStr)
        /\ UNCHANGED <<events, tickets, users, nextId, pc, rq>>

EditRoomsInputs ==
    LET cur == locations[1].rooms
    IN  {[i \in 1..Len(cur) |-> [cur[i] EXCEPT !.capacity = caps[i]]] :
            caps \in [1..Len(cur) -> 0..MaxCap]}
        \cup {SubSeq(cur, 1, Len(cur) - 1), InitLocation.rooms}

EditLocationBodies ==
    {[has |-> {"location_id", "rooms"}, location_id |-> 1,
      location_name |-> NoStr, events_ids |-> <<>>, rooms |-> rooms] :
        rooms \in EditRoomsInputs}
    \cup {[has |-> {"location_id"}, location_id |-> l,
           location_name |-> NoStr, events_ids |-> <<>>, rooms |-> <<>>] :
        l \in {NoId, NoSuchId}}

CreateLocationBodies ==
    {[has |-> {"location_name", "rooms", "events_ids"}, location_id |-> NoId,
      location_name |-> n, events_ids |-> <<>>, rooms |-> <<Room(NoId, c)>>] :
        n \in {"Building 32", "Building 16"}, c \in {MaxCap}}

\* one event is enough to meet every capacity
MaxCapEvents == 1

CapCreateEvent ==
    /\ Cardinality(DOMAIN events) < MaxCapEvents
    /\ \E body \in CapCreateEventBodies : create_event(body)

CapUpdateEvent ==
    \E body \in CapUpdateEventBodies : update_event(body)

CreateLocation == \E body \in CreateLocationBodies : create_location(body)

EditLocation == \E body \in EditLocationBodies : edit_location(body)

NextCapacity ==
    \/ CapCreateEvent
    \/ CapUpdateEvent
    \/ CreateLocation
    \/ EditLocation

SpecCapacity == Init /\ [][NextCapacity]_vars

(***************************************************************************)
(* Properties                                                              *)
(***************************************************************************)
\* the half-open intervals [start_date, end_date) of two events, as instants
Overlaps(e1, e2) ==
    /\ isoparse(e1.start_date) < isoparse(e2.end_date)
    /\ isoparse(e2.start_date) < isoparse(e1.end_date)

SameRoom(e1, e2) ==
    e1.location_id = e2.location_id /\ e1.room_id = e2.room_id

\* C1: after any sequence of create_event and update_event calls run one
\* after the other, no two distinct persisted events of the same
\* (location_id, room_id) have overlapping intervals [start_date, end_date).
C1_NoDoubleBooking ==
    \A a, b \in DOMAIN events :
        (a # b /\ SameRoom(events[a], events[b]))
            => ~Overlaps(events[a], events[b])


\* the capacity of the room a document is bound to, -1 when its location or
\* its room does not exist
RoomCapacity(locs, event_doc) ==
    IF event_doc.location_id \notin DOMAIN locs THEN -1
    ELSE LET rooms == locs[event_doc.location_id].rooms
             i == SelectedRoom(rooms, event_doc.room_id)
         IN  IF i = 0 THEN -1 ELSE rooms[i].capacity

\* create_event reaches its capacity check: every earlier check passes
C7_RoomResolved(body) ==
    /\ CE_FieldError(body) = "ok"
    /\ CE_LocationError(LocQuery(locations, body.location_id)) = "ok"
    /\ CE_UserError(UserQuery(users, body.user_id)) = "ok"
    /\ SelectedRoom(locations[body.location_id].rooms, body.room_id) # 0

\* C7: create_event with max_tick above the capacity of the resolved room is
\* rejected as capacity-exceeded and persists nothing; update_event whose
\* merged document has max_tick above the capacity of the merged document's
\* room is rejected and the stored event is unchanged.
C7_CapacityGate ==
    [][/\ \A body \in CapCreateEventBodies :
            (/\ create_event(body)
             /\ C7_RoomResolved(body)
             /\ body.max_tick > RoomCapacity(locations, body))
                => (/\ last'.err = "CapacityExceeded"
                    /\ events' = events
                    /\ locations' = locations)
       /\ \A body \in CapUpdateEventBodies :
            (/\ update_event(body)
             /\ RoomCapacity(locations, UE_Merged(events[body.event_id], body)) >= 0
             /\ UE_Merged(events[body.event_id], body).max_tick
                  > RoomCapacity(locations, UE_Merged(events[body.event_id], body)))
                => (last'.err # "ok" /\ events' = events)
      ]_vars

\* C8: after any sequence of create_event, update_event, create_location and
\* edit_location calls, every persisted event has max_tick at most the
\* current capacity of the room its (location_id, room_id) names.
C8_WithinRoomCapacity ==
    \A e \in DOMAIN events :
        /\ RoomCapacity(locations, events[e]) >= 0
        /\ events[e].max_tick <= RoomCapacity(locations, events[e])

(***************************************************************************)
(* SpecTickets: create_event, update_event, delete_event, create_ticket,   *)
(* update_ticket and delete_ticket called one after the other.             *)
(***************************************************************************)
Emails == {"a@x.com", "b@x.com"}

TicketBody(user_id, event_id, email) ==
    [has |-> {"user_id", "event_id", "email"}, user_id |-> user_id,
     event_id |-> event_id, email |-> email]

TicketPatch(ticket_id, keys, email, validated) ==
    [has |-> keys \cup {"ticket_id"}, ticket_id |-> ticket_id, email |-> email,
     validated |-> validated]

DeleteBody(event_id, user_id) ==
    [has |-> {"event_id", "user_id"}, event_id |-> event_id, user_id |-> user_id]

\* events of one time range, in the room of capacity MaxCap
TkCreateEventBodies ==
    {EventBody(MandatoryEventFields, "admin", 1, 2, MkDate(0, 0, 0), MkDate(1, 0, 0),
               max_tick, NoStr) : max_tick \in 1..MaxCap}

TkUpdateEventBodies ==
    {Patch(e, "admin", {"max_tick"}, NoId, NoId, MkDate(0, 0, 0), MkDate(0, 0, 0), m) :
        e \in DOMAIN events, m \in 1..MaxCap}

TkDeleteEventBodies ==
    {DeleteBody(e, u) : e \in DOMAIN events, u \in {"admin", "student"}}

\* "ghost" is the user_id of no user
CreateTicketBodies ==
    {TicketBody(u, e, m) :
        u \in {"student", "ghost"}, e \in DOMAIN events \cup {NoSuchId}, m \in Emails}

UpdateTicketBodies ==
    {TicketPatch(t, {"email"}, m, FALSE) : t \in DOMAIN tickets, m \in Emails}
    \cup {TicketPatch(t, {"validated"}, NoStr, TRUE) : t \in DOMAIN tickets}

TkCreateEvent ==
    /\ Cardinality(DOMAIN events) < MaxEvents
    /\ \E body \in TkCreateEventBodies : create_event(body)

TkUpdateEvent == \E body \in TkUpdateEventBodies : update_event(body)

TkDeleteEvent == \E body \in TkDeleteEventBodies : delete_event(body)

CreateTicket ==
    /\ Cardinality(DOMAIN tickets) < MaxTickets
    /\ \E body \in CreateTicketBodies : create_ticket(body)

UpdateTicket == \E body \in UpdateTicketBodies : update_ticket(body)

DeleteTicket == \E t \in DOMAIN tickets \cup {NoSuchId} : delete_ticket(t)

NextTickets ==
    \/ TkCreateEvent
    \/ TkUpdateEvent
    \/ TkDeleteEvent
    \/ CreateTicket
    \/ UpdateTicket
    \/ DeleteTicket

SpecTickets == Init /\ [][NextTickets]_vars

\* C3: after any sequence of create_event, update_event, delete_event,
\* create_ticket, update_ticket and delete_ticket calls run one after the
\* other, the number of tickets of an event is at most its current max_tick.
C3_TicketsWithinMaxTick ==
    \A e \in DOMAIN events : TicketsCount(tickets, e) <= events[e].max_tick

\* C6: a create_ticket call naming an event_id and email that a stored ticket
\* already carries is rejected with the duplicate-email error and leaves the
\* tickets store as it was, whether or not its user_id names a user.
C6_DuplicateEmailRejected ==
    [][\A body \in CreateTicketBodies :
            (/\ create_ticket(body)
             /\ EmailQuery(tickets, body.event_id, body.email) # {})
                => (last'.err = "DuplicateEmail" /\ tickets' = tickets)
      ]_vars

\* a duplicate create_ticket sent under a user_id that names no user has
\* been answered with the duplicate-email error
C6_Witness ==
    /\ last.op = "create_ticket"
    /\ last.err = "DuplicateEmail"
    /\ last.user_id \notin DOMAIN users
    /\ EmailQuery(tickets, last.event_id, last.email) # {}

(***************************************************************************)
(* Calls in flight.  A call is a process p: pc[p] names the store call it  *)
(* makes next, rq[p] holds its request body and its local variables.  One  *)
(* step is one store call together with the checks made on its result.     *)
(***************************************************************************)
MaxProcs == 3

Procs == 1..MaxProcs

\* the local variables of a handler: the document it read (location_doc,
\* event_doc, ticket_doc), the tickets it listed, max_tickets, the id it drew
Frame(op, body, err) ==
    [op |-> op, body |-> body, err |-> err, doc |-> <<>>, items |-> <<>>,
     max_tickets |-> 0, id |-> NoId]

\* the handler is entered: the checks that read no store are made
Call(p, op, body, label, err) ==
    /\ p \notin DOMAIN pc
    /\ pc' = Put(pc, p, IF err = "ok" THEN label ELSE "done")
    /\ rq' = Put(rq, p, Frame(op, body, IF err = "ok" THEN "pending" ELSE err))

Goto(p, label) == pc' = [pc EXCEPT ![p] = label]

\* return {"status_code": ..., "body": ...}
Return(p, err) ==
    /\ pc' = [pc EXCEPT ![p] = "done"]
    /\ rq' = [rq EXCEPT ![p].err = err]

At(p, label) == p \in DOMAIN pc /\ pc[p] = label

(***************************************************************************)
(* create_event, store call by store call                                  *)
(***************************************************************************)
CE_Begin(p, body) ==
    /\ Call(p, "create_event", body, "ce_loc", CE_FieldError(body))
    /\ UNCHANGED <<events, locations, tickets, users, nextId, last>>

\* loc_items = list(LocationsContainerProxy.query_items(...))
CE_ReadLocation(p) ==
    /\ At(p, "ce_loc")
    /\ LET loc_items == LocQuery(locations, rq[p].body.location_id)
       IN  IF CE_LocationError(loc_items) # "ok"
           THEN Return(p, CE_LocationError(loc_items))
           ELSE /\ Goto(p, "ce_user")
                /\ rq' = [rq EXCEPT ![p].doc = loc_items[1]]
    /\ UNCHANGED <<events, locations, tickets, users, nextId, last>>

\* user_items = list(UsersContainerProxy.query_items(...))
CE_ReadUser(p) ==
    /\ At(p, "ce_user")
    /\ LET err == CE_UserError(UserQuery(users, rq[p].body.user_id))
       IN  IF err # "ok" THEN Return(p, err)
           ELSE Goto(p, "ce_overlap") /\ UNCHANGED rq
    /\ UNCHANGED <<events, locations, tickets, users, nextId, last>>

\* the checks of name, desc, groups and tags, the room and capacity check on
\* location_doc, then the overlap query
CE_QueryOverlap(p) ==
    /\ At(p, "ce_overlap")
    /\ LET nb == CE_Normalized(rq[p].body)
       IN  IF CE_TextError(nb) # "ok" THEN Return(p, CE_TextError(nb))
           ELSE IF CE_RoomError(nb, rq[p].doc) # "ok"
           THEN Return(p, CE_RoomError(nb, rq[p].doc))
           ELSE IF CE_OverlapError(OverlapQuery(events, nb.location_id, nb.room_id,
                                                nb.start_date, nb.end_date)) # "ok"
                THEN Return(p, "RoomConflict")
           ELSE Goto(p, "ce_create") /\ UNCHANGED rq
    /\ UNCHANGED <<events, locations, tickets, users, nextId, last>>

\* event_id = str(uuid.uuid4()) ... EventsContainerProxy.create_item(event_doc)
CE_Insert(p) ==
    /\ At(p, "ce_create")
    /\ nextId <= MaxIds
    /\ \E code \in Codes :
        LET event_doc == CE_EventDoc(CE_Normalized(rq[p].body), nextId, code)
        IN  IF CE_SchemaError(event_doc) # "ok"
            THEN /\ Return(p, CE_SchemaError(event_doc))
                 /\ UNCHANGED <<events, nextId>>
            ELSE /\ events' = Put(events, nextId, event_doc)
                 /\ nextId' = nextId + 1
                 /\ Goto(p, "ce_replace")
                 /\ rq' = [rq EXCEPT ![p].id = nextId]
    /\ UNCHANGED <<locations, tickets, users, last>>

\* LocationsContainerProxy.replace_item(item=location_doc, body=location_doc),
\* location_doc being the document read at ce_loc
CE_ReplaceLocation(p) ==
    /\ At(p, "ce_replace")
    /\ locations' = Put(locations, rq[p].doc.location_id,
                        CE_LocationWithEvent(rq[p].doc, rq[p].body.room_id, rq[p].id))
    /\ Return(p, "ok")
    /\ UNCHANGED <<events, tickets, users, nextId, last>>

\* the store call about to be made raises, or the process dies there:
\* except Exception returns the 500 and what was written stays written
CE_Fault(p) ==
    /\ p \in DOMAIN pc
    /\ pc[p] \in {"ce_loc", "ce_user", "ce_overlap", "ce_create", "ce_replace"}
    /\ Return(p, "InternalError")
    /\ UNCHANGED <<events, locations, tickets, users, nextId, last>>

(***************************************************************************)
(* create_ticket, store call by store call                                 *)
(***************************************************************************)
CT_Begin(p, body) ==
    /\ Call(p, "create_ticket", body, "ct_email", CT_FieldError(body))
    /\ UNCHANGED <<events, locations, tickets, users, nextId, last>>

CT_QueryEmail(p) ==
    /\ At(p, "ct_email")
    /\ LET err == CT_EmailError(EmailQuery(tickets, rq[p].body.event_id,
                                           rq[p].body.email))
       IN  IF err # "ok" THEN Return(p, err)
           ELSE Goto(p, "ct_user") /\ UNCHANGED rq
    /\ UNCHANGED <<events, locations, tickets, users, nextId, last>>

CT_QueryUser(p) ==
    /\ At(p, "ct_user")
    /\ LET err == CT_UserError(UserQuery(users, rq[p].body.user_id))
       IN  IF err # "ok" THEN Return(p, err)
           ELSE Goto(p, "ct_event") /\ UNCHANGED rq
    /\ UNCHANGED <<events, locations, tickets, users, nextId, last>>

\* event = event_items[0]; max_tickets = event.get('max_tick', 0)
CT_QueryEvent(p) ==
    /\ At(p, "ct_event")
    /\ LET event_items == EventQuery(events, rq[p].body.event_id)
       IN  IF CT_EventError(event_items) # "ok"
           THEN Return(p, CT_EventError(event_items))
           ELSE /\ Goto(p, "ct_count")
                /\ rq' = [rq EXCEPT ![p].max_tickets = event_items[1].max_tick]
    /\ UNCHANGED <<events, locations, tickets, users, nextId, last>>

CT_Count(p) ==
    /\ At(p, "ct_count")
    /\ LET err == CT_CapacityError(TicketsCount(tickets, rq[p].body.event_id),
                                   rq[p].max_tickets)
       IN  IF err # "ok" THEN Return(p, err)
           ELSE Goto(p, "ct_create") /\ UNCHANGED rq
    /\ UNCHANGED <<events, locations, tickets, users, nextId, last>>

\* generated_id = str(uuid.uuid4()) ... TicketsContainerProxy.create_item(ticket_doc)
CT_Insert(p) ==
    /\ At(p, "ct_create")
    /\ nextId <= MaxIds
    /\ LET ticket_doc == CT_TicketDoc(rq[p].body, nextId)
       IN  IF ~TicketSchemaValid(ticket_doc)
           THEN Return(p, "SchemaViolation") /\ UNCHANGED <<tickets, nextId>>
           ELSE /\ tickets' = Put(tickets, nextId, ticket_doc)
                /\ nextId' = nextId + 1
                /\ pc' = [pc EXCEPT ![p] = "done"]
                /\ rq' = [rq EXCEPT ![p].err = "ok", ![p].id = nextId]
    /\ UNCHANGED <<events, locations, users, last>>

(***************************************************************************)
(* update_ticket, store call by store call                                 *)
(***************************************************************************)
UT_Begin(p, body) ==
    /\ Call(p, "update_ticket", body, "ut_ticket",
            IF body.ticket_id = NoId THEN "MissingField" ELSE "ok")
    /\ UNCHANGED <<events, locations, tickets, users, nextId, last>>

\* tickets = list(TicketsContainerProxy.query_items(...)); ticket_doc = tickets[0]
UT_ReadTicket(p) ==
    /\ At(p, "ut_ticket")
    /\ IF rq[p].body.ticket_id \notin DOMAIN tickets
       THEN Return(p, "TicketNotFound")
       ELSE /\ Goto(p, IF "email" \in rq[p].body.has THEN "ut_email" ELSE "ut_replace")
            /\ rq' = [rq EXCEPT ![p].doc = tickets[rq[p].body.ticket_id]]
    /\ UNCHANGED <<events, locations, tickets, users, nextId, last>>

\* the duplicate query made for a patch with an email
UT_QueryEmail(p) ==
    /\ At(p, "ut_email")
    /\ IF ~EmailShapeValid(rq[p].body.email) THEN Return(p, "InvalidEmail")
       ELSE IF EmailQueryExcluding(tickets, rq[p].doc.event_id, rq[p].body.email,
                                   rq[p].body.ticket_id) # {}
            THEN Return(p, "DuplicateEmail")
       ELSE Goto(p, "ut_replace") /\ UNCHANGED rq
    /\ UNCHANGED <<events, locations, tickets, users, nextId, last>>

\* TicketsContainerProxy.replace_item(item=ticket_doc, body=ticket_doc); the
\* call raises when the ticket has been deleted meanwhile
UT_Replace(p) ==
    /\ At(p, "ut_replace")
    /\ LET body == rq[p].body
           ticket_doc == UT_Merged(rq[p].doc, body)
       IN  IF "validated" \in body.has /\ body.validated \notin BOOLEAN
           THEN Return(p, "InvalidValidated") /\ UNCHANGED tickets
           ELSE IF body.has \cap {"email", "validated"} = {}
                THEN Return(p, "NothingToUpdate") /\ UNCHANGED tickets
           ELSE IF ~TicketSchemaValid(ticket_doc)
                THEN Return(p, "SchemaViolation") /\ UNCHANGED tickets
           ELSE IF body.ticket_id \notin DOMAIN tickets
                THEN Return(p, "InternalError") /\ UNCHANGED tickets
           ELSE /\ tickets' = Put(tickets, body.ticket_id, ticket_doc)
                /\ Return(p, "ok")
    /\ UNCHANGED <<events, locations, users, nextId, last>>

(***************************************************************************)
(* delete_event, store call by store call; a store call may raise          *)
(***************************************************************************)
\* the orders in which a query may list the documents S
Listings(S) ==
    {f \in [1..Cardinality(S) -> S] : \A i, j \in 1..Cardinality(S) : f[i] = f[j] => i = j}

DE_Begin(p, body) ==
    /\ Call(p, "delete_event", body, "de_event",
            IF body.event_id = NoId \/ body.user_id = NoStr THEN "MissingField" ELSE "ok")
    /\ UNCHANGED <<events, locations, tickets, users, nextId, last>>

\* event_items = list(EventsContainerProxy.query_items(...))
DE_ReadEvent(p) ==
    /\ At(p, "de_event")
    /\ LET event_items == EventQuery(events, rq[p].body.event_id)
       IN  IF event_items = <<>> THEN Return(p, "EventNotFound")
           ELSE /\ Goto(p, "de_user")
                /\ rq' = [rq EXCEPT ![p].doc = event_items[1]]
    /\ UNCHANGED <<events, locations, tickets, users, nextId, last>>

\* user_items = list(UsersContainerProxy.query_items(...)), and the 403 check
DE_ReadUser(p) ==
    /\ At(p, "de_user")
    /\ LET user_items == UserQuery(users, rq[p].body.user_id)
       IN  IF user_items = <<>> THEN Return(p, "UserNotFound")
           ELSE IF DE_Forbidden(user_items[1], rq[p].doc, rq[p].body.user_id)
                THEN Return(p, "Forbidden")
           ELSE Goto(p, "de_tickets") /\ UNCHANGED rq
    /\ UNCHANGED <<events, locations, tickets, users, nextId, last>>

\* tickets = list(TicketsContainerProxy.query_items(...))
DE_QueryTickets(p) ==
    /\ At(p, "de_tickets")
    /\ \E listing \in Listings(TicketsOfEvent(tickets, rq[p].body.event_id)) :
        rq' = [rq EXCEPT ![p].items = listing]
    /\ Goto(p, "de_delete")
    /\ UNCHANGED <<events, locations, tickets, users, nextId, last>>

\* one round of the loop: TicketsContainerProxy.delete_item(ticket), which
\* raises when the ticket is no longer stored
DE_DeleteTicket(p) ==
    /\ At(p, "de_delete")
    /\ rq[p].items # <<>>
    /\ LET ticket_id == Head(rq[p].items)
       IN  IF ticket_id \notin DOMAIN tickets
           THEN Return(p, "InternalError") /\ UNCHANGED tickets
           ELSE /\ tickets' = Remove(tickets, {ticket_id})
                /\ rq' = [rq EXCEPT ![p].items = Tail(@)]
                /\ UNCHANGED pc
    /\ UNCHANGED <<events, locations, users, nextId, last>>

\* EventsContainerProxy.delete_item(item=event_id, partition_key=event_id)
DE_DeleteEvent(p) ==
    /\ At(p, "de_delete")
    /\ rq[p].items = <<>>
    /\ IF rq[p].body.event_id \notin DOMAIN events
       THEN Return(p, "InternalError") /\ UNCHANGED events
       ELSE /\ events' = Remove(events, {rq[p].body.event_id})
            /\ Return(p, "ok")
    /\ UNCHANGED <<locations, tickets, users, nextId, last>>

\* the store call about to be made raises (a timeout, a throttled request):
\* except Exception returns the 500 and nothing is undone
DE_Fault(p) ==
    /\ p \in DOMAIN pc
    /\ pc[p] \in {"de_event", "de_user", "de_tickets", "de_delete"}
    /\ Return(p, "InternalError")
    /\ UNCHANGED <<events, locations, tickets, users, nextId, last>>

(***************************************************************************)
(* SpecRaceEvents: create_event calls in flight together, for one time     *)
(* range in either room.                                                   *)
(***************************************************************************)
RaceEventBodies ==
    {EventBody(MandatoryEventFields, u, 1, room_id, MkDate(0, 0, 0), MkDate(1, 0, 0),
               1, NoStr) : u \in {"admin", "student"}, room_id \in {2, 3, NoSuchId}}

NextRaceEvents ==
    \E p \in Procs :
        \/ \E body \in RaceEventBodies : CE_Begin(p, body)
        \/ CE_ReadLocation(p)
        \/ CE_ReadUser(p)
        \/ CE_QueryOverlap(p)
        \/ CE_Insert(p)
        \/ CE_ReplaceLocation(p)
        \/ CE_Fault(p)

SpecRaceEvents == Init /\ [][NextRaceEvents]_vars

\* C2: of two create_event calls for the same (location_id, room_id) and
\* overlapping intervals whose store calls interleave, at most one succeeds
\* and persists an event.
C2_AtMostOneSucceeds ==
    \A p, q \in DOMAIN pc :
        (/\ p # q
         /\ rq[p].op = "create_event" /\ rq[q].op = "create_event"
         /\ SameRoom(rq[p].body, rq[q].body)
         /\ Overlaps(CE_Normalized(rq[p].body), CE_Normalized(rq[q].body)))
            => ~(/\ rq[p].err = "ok" /\ rq[q].err = "ok"
                 /\ rq[p].id \in DOMAIN events /\ rq[q].id \in DOMAIN events)

\* the event ids a list of references names
RefsOf(events_ids) == {events_ids[i] : i \in 1..Len(events_ids)}

\* C12: once the create_event calls made have returned, a store fault between
\* the insert of the event and the replace of the location included, every
\* persisted event is named in the events_ids of its location and of its
\* room, and every event named there is persisted.
C12_RefsMatchEvents ==
    (\A p \in DOMAIN pc : pc[p] = "done")
        => /\ \A e \in DOMAIN events :
                LET loc == locations[events[e].location_id]
                    i == SelectedRoom(loc.rooms, events[e].room_id)
                IN  e \in RefsOf(loc.events_ids) /\ e \in RefsOf(loc.rooms[i].events_ids)
           /\ \A l \in DOMAIN locations :
                /\ RefsOf(locations[l].events_ids) \subseteq DOMAIN events
                /\ \A i \in 1..Len(locations[l].rooms) :
                      RefsOf(locations[l].rooms[i].events_ids) \subseteq DOMAIN events

(***************************************************************************)
(* SpecRaceTickets: create_ticket and update_ticket calls in flight        *)
(* together, against one event of max_tick K that has no ticket yet.       *)
(***************************************************************************)
StoredEventBody(max_tick) ==
    EventBody(MandatoryEventFields, "admin", 1, 2, MkDate(0, 0, 0), MkDate(1, 0, 0),
              max_tick, NoStr)

\* the state after create_event(StoredEventBody(max_tick)) from Init
InitWithEvent(max_tick) ==
    /\ events = Put(<<>>, 4, CE_EventDoc(CE_Normalized(StoredEventBody(max_tick)),
                                        4, "K7Q2ZD"))
    /\ locations = Put(<<>>, 1, CE_LocationWithEvent(InitLocation, 2, 4))
    /\ users = InitUsers
    /\ last = Returned("create_event", "ok", 4, NoId, "admin", NoStr)
    /\ pc = <<>>
    /\ rq = <<>>

InitRaceTickets ==
    /\ \E max_tick \in 1..MaxCap : InitWithEvent(max_tick)
    /\ tickets = <<>>
    /\ nextId = 5

RaceTicketBodies == {TicketBody("student", 4, m) : m \in Emails}

RaceTicketPatches ==
    {TicketPatch(t, {"email"}, m, FALSE) : t \in DOMAIN tickets, m \in Emails}

NextRaceTickets ==
    \E p \in Procs :
        \/ \E body \in RaceTicketBodies : CT_Begin(p, body)
        \/ CT_QueryEmail(p)
        \/ CT_QueryUser(p)
        \/ CT_QueryEvent(p)
        \/ CT_Count(p)
        \/ CT_Insert(p)
        \/ \E body \in RaceTicketPatches : UT_Begin(p, body)
        \/ UT_ReadTicket(p)
        \/ UT_QueryEmail(p)
        \/ UT_Replace(p)

SpecRaceTickets == InitRaceTickets /\ [][NextRaceTickets]_vars

Min(a, b) == IF a <= b THEN a ELSE b

\* C4: when the N calls made are create_ticket calls with distinct emails
\* against the event of max_tick K and all have returned, exactly min(N, K)
\* of them succeeded; and the event never has more than K tickets.
C4_ExactlyMinSucceed ==
    /\ TicketsCount(tickets, 4) <= events[4].max_tick
    /\ (/\ \A p \in DOMAIN pc : rq[p].op = "create_ticket" /\ pc[p] = "done"
        /\ \A p, q \in DOMAIN pc : p # q => rq[p].body.email # rq[q].body.email)
          => Cardinality({p \in DOMAIN pc : rq[p].err = "ok"})
                = Min(Cardinality(DOMAIN pc), events[4].max_tick)

\* C5: in every state reached by interleaving the store calls of
\* create_ticket and update_ticket calls, no two distinct tickets have the
\* same (event_id, email).
C5_EmailUniquePerEvent ==
    \A t, u \in DOMAIN tickets :
        (tickets[t].event_id = tickets[u].event_id /\ tickets[t].email = tickets[u].email)
            => t = u

(***************************************************************************)
(* SpecCascade: a delete_event whose store calls may fail, in flight       *)
(* together with create_ticket calls, on an event that has two tickets.    *)
(***************************************************************************)
CascadeTickets ==
    Put(Put(<<>>, 5, CT_TicketDoc(TicketBody("student", 4, "a@x.com"), 5)),
        6, CT_TicketDoc(TicketBody("student", 4, "b@x.com"), 6))

\* the state after create_event and two create_ticket calls
InitCascade ==
    /\ InitWithEvent(MaxCap)
    /\ tickets = CascadeTickets
    /\ nextId = 7

CascadeDeleteBodies == {DeleteBody(4, u) : u \in {"admin", "student"}}

CascadeTicketBodies == {TicketBody("student", 4, m) : m \in {"a@x.com", "c@x.com"}}

NextCascade ==
    \E p \in Procs :
        \/ \E body \in CascadeDeleteBodies : DE_Begin(p, body)
        \/ DE_ReadEvent(p)
        \/ DE_ReadUser(p)
        \/ DE_QueryTickets(p)
        \/ DE_DeleteTicket(p)
        \/ DE_DeleteEvent(p)
        \/ DE_Fault(p)
        \/ \E body \in CascadeTicketBodies : CT_Begin(p, body)
        \/ CT_QueryEmail(p)
        \/ CT_QueryUser(p)
        \/ CT_QueryEvent(p)
        \/ CT_Count(p)
        \/ CT_Insert(p)

SpecCascade == InitCascade /\ [][NextCascade]_vars

\* C9: a delete_event that is the only call made, once returned, has either
\* removed the event and every ticket of it, or returned an error with the
\* event and all its tickets still stored.
C9_AllOrNothing ==
    \A p \in DOMAIN pc :
        (DOMAIN pc = {p} /\ rq[p].op = "delete_event" /\ pc[p] = "done")
            => \/ /\ rq[p].err = "ok"
                  /\ 4 \notin DOMAIN events
                  /\ TicketsOfEvent(tickets, 4) = {}
               \/ /\ rq[p].err # "ok"
                  /\ 4 \in DOMAIN events
                  /\ tickets = CascadeTickets

\* C10: once a delete_event and the create_ticket calls in flight with it
\* have all returned, every ticket's event_id names a persisted event.
C10_NoOrphanTickets ==
    (\A p \in DOMAIN pc : pc[p] = "done")
        => \A t \in DOMAIN tickets : tickets[t].event_id \in DOMAIN events

(***************************************************************************)
(* SpecChecks: create_event, update_event and create_ticket called one     *)
(* after the other with requests that break none, one or two of the        *)
(* checks of the handler.                                                  *)
(***************************************************************************)
ValidEventBody ==
    [EventBody(MandatoryEventFields \cup {"tags", "img_url"}, "admin", 1, 2,
               MkDate(0, 0, 0), MkDate(1, 0, 0), 1, GoodUrl)
        EXCEPT !.tags = <<"Lecture">>]

\* the body with one thing changed; 0 changes nothing, 16 moves it to the
\* other room
EventDeviations == 0..16

DeviateEvent(body, i) ==
    CASE i = 1  -> [body EXCEPT !.has = @ \ {"name"}]
      [] i = 2  -> [body EXCEPT !.start_date = BadDate]
      [] i = 3  -> [body EXCEPT !.start_date = body.end_date]
      [] i = 4  -> [body EXCEPT !.max_tick = 0]
      [] i = 5  -> [body EXCEPT !.location_id = NoId]
      [] i = 6  -> [body EXCEPT !.location_id = NoSuchId]
      [] i = 7  -> [body EXCEPT !.user_id = "ghost"]
      [] i = 8  -> [body EXCEPT !.user_id = "student"]
      [] i = 9  -> [body EXCEPT !.name = NotText]
      [] i = 10 -> [body EXCEPT !.desc = NotText]
      [] i = 11 -> [body EXCEPT !.groups = <<"COMP3200", "Knitting">>]
      [] i = 12 -> [body EXCEPT !.tags = <<"Party">>]
      [] i = 13 -> [body EXCEPT !.room_id = NoSuchId]
      [] i = 14 -> [body EXCEPT !.max_tick = MaxCap + 1]
      [] i = 15 -> [body EXCEPT !.img_url = BadUrl]
      [] i = 16 -> [body EXCEPT !.room_id = 3]
      [] OTHER  -> body

ChkEventBodies ==
    {DeviateEvent(DeviateEvent(ValidEventBody, i), j) :
        i \in EventDeviations, j \in EventDeviations}

ChkPatches ==
    LET d0 == MkDate(0, 0, 0)
    IN  {Patch(e, u, {"max_tick"}, NoId, NoId, d0, d0, m) :
            e \in DOMAIN events \cup {NoSuchId}, u \in {"admin", "student", "ghost"},
            m \in {0, 1, MaxCap + 1}}
        \cup {Patch(e, "admin", {"start_date"}, NoId, NoId, BadDate, d0, 0) :
                e \in DOMAIN events}
        \cup {Patch(e, "admin", {"location_id"}, NoSuchId, NoId, d0, d0, 0) :
                e \in DOMAIN events}
        \cup {Patch(e, "admin", {"room_id"}, NoId, r, d0, d0, 0) :
                e \in DOMAIN events, r \in {2, NoSuchId}}
        \cup {[Patch(e, "admin", {"img_url", "max_tick"}, NoId, NoId, d0, d0, 1)
                    EXCEPT !.img_url = BadUrl] : e \in DOMAIN events}

TicketDeviations == 0..4

DeviateTicket(body, i) ==
    CASE i = 1 -> [body EXCEPT !.has = @ \ {"email"}]
      [] i = 2 -> [body EXCEPT !.email = NotText]
      [] i = 3 -> [body EXCEPT !.user_id = "ghost"]
      [] i = 4 -> [body EXCEPT !.event_id = NoSuchId]
      [] OTHER -> body

ChkTicketBodies ==
    {DeviateTicket(DeviateTicket(TicketBody("student", e, m), i), j) :
        e \in DOMAIN events, m \in Emails, i \in TicketDeviations, j \in TicketDeviations}

ChkCreateEvent ==
    /\ Cardinality(DOMAIN events) < MaxEvents
    /\ \E body \in ChkEventBodies : create_event(body)

ChkUpdateEvent == \E body \in ChkPatches : update_event(body)

ChkCreateTicket == \E body \in ChkTicketBodies : create_ticket(body)

NextChecks ==
    \/ ChkCreateEvent
    \/ ChkUpdateEvent
    \/ ChkCreateTicket

SpecChecks == Init /\ [][NextChecks]_vars

\* C11: a create_event, update_event or create_ticket call that is rejected
\* by a validation check, the schema validation included, leaves the events,
\* locations and tickets stores exactly as they were.
C11_RejectionWritesNothing ==
    [][(last'.op \in {"create_event", "update_event", "create_ticket"}
            /\ last'.err # "ok")
          => (events' = events /\ locations' = locations /\ tickets' = tickets)
      ]_vars

\* a create_event has been rejected by the last check, the schema validation,
\* with an event already stored
C11_Witness ==
    /\ last.op = "create_event"
    /\ last.err = "SchemaViolation"
    /\ events # <<>>

\* the check of create_event that returned the error, by its place in the
\* handler; 13 is the success
CE_CheckOf(err) ==
    CASE err = "MissingField" -> 1
      [] err \in {"InvalidDate", "InvalidTimeRange"} -> 2
      [] err = "InvalidMaxTick" -> 3
      [] err \in {"LocationEmpty", "LocationNotFound"} -> 4
      [] err \in {"UserNotFound", "Unauthorized"} -> 5
      [] err \in {"InvalidName", "InvalidDesc"} -> 6
      [] err = "InvalidGroup" -> 7
      [] err = "InvalidTag" -> 8
      [] err = "RoomNotFound" -> 9
      [] err = "CapacityExceeded" -> 10
      [] err = "RoomConflict" -> 11
      [] err = "SchemaViolation" -> 12
      [] err = "ok" -> 13
      [] OTHER -> 0

\* what each check of create_event asks of the body and the stores, one
\* at a time; checks 9 to 12 are asked of a body that passed checks 1 to 4
CE_Passes(body, k) ==
    CASE k = 1 -> MandatoryEventFields \subseteq body.has
      [] k = 2 -> /\ IsIso(body.start_date) /\ IsIso(body.end_date)
                  /\ isoparse(format_UTC_0(body.start_date))
                        < isoparse(format_UTC_0(body.end_date))
      [] k = 3 -> body.max_tick > 0
      [] k = 4 -> body.location_id \in DOMAIN locations
      [] k = 5 -> body.user_id \in DOMAIN users /\ users[body.user_id].auth
      [] k = 6 -> IsText(body.name) /\ IsText(body.desc)
      [] k = 7 -> \A i \in 1..Len(body.groups) : body.groups[i] \in valid_groups
      [] k = 8 -> \/ "tags" \notin body.has
                  \/ \A i \in 1..Len(body.tags) : body.tags[i] \in valid_tags
      [] k = 9 -> \E i \in 1..Len(locations[body.location_id].rooms) :
                      locations[body.location_id].rooms[i].room_id = body.room_id
      [] k = 10 -> \E i \in 1..Len(locations[body.location_id].rooms) :
                      /\ locations[body.location_id].rooms[i].room_id = body.room_id
                      /\ body.max_tick <= locations[body.location_id].rooms[i].capacity
      [] k = 11 -> OverlapQuery(events, body.location_id, body.room_id,
                                format_UTC_0(body.start_date),
                                format_UTC_0(body.end_date)) = {}
      [] k = 12 -> \A code \in Codes :
                      EventSchemaValid(CE_EventDoc(CE_Normalized(body), nextId, code))
      [] OTHER -> TRUE

\* the earliest check the body violates, 13 when it violates none
RECURSIVE CE_FirstViolatedFrom(_, _)
CE_FirstViolatedFrom(body, k) ==
    IF k > 12 THEN 13
    ELSE IF ~CE_Passes(body, k) THEN k
    ELSE CE_FirstViolatedFrom(body, k + 1)

\* C13: create_event answers with the error of the earliest violated check
\* in the order mandatory fields, timestamps, max_tick, location, user,
\* name and desc, groups, tags, room, capacity, overlap, schema.
C13_EarliestViolatedCheck ==
    [][last'.op = "create_event"
          => \A body \in ChkEventBodies :
                (last'.user_id = body.user_id /\ create_event(body))
                  => CE_CheckOf(last'.err) = CE_FirstViolatedFrom(body, 1)
      ]_vars

\* a body naming an unknown user and an unknown location was answered with
\* the location error, the earlier of the two checks
C13_Witness ==
    /\ last.op = "create_event"
    /\ last.err = "LocationNotFound"
    /\ last.user_id = "ghost"

\* the check of create_ticket that returned the error, by its place in the
\* handler; 8 is the success
CT_CheckOf(err) ==
    CASE err = "MissingField" -> 1
      [] err = "InvalidEmail" -> 2
      [] err = "DuplicateEmail" -> 3
      [] err = "UserNotFound" -> 4
      [] err = "EventNotFound" -> 5
      [] err = "EventFull" -> 6
      [] err = "SchemaViolation" -> 7
      [] err = "ok" -> 8
      [] OTHER -> 0

\* what each check of create_ticket asks of the body and the stores, one at
\* a time; check 6 is asked of a body that passed check 5
CT_Passes(body, k) ==
    CASE k = 1 -> {"user_id", "event_id", "email"} \subseteq body.has
      [] k = 2 -> IsText(body.email)
      [] k = 3 -> ~\E t \in DOMAIN tickets :
                      tickets[t].event_id = body.event_id /\ tickets[t].email = body.email
      [] k = 4 -> body.user_id \in DOMAIN users
      [] k = 5 -> body.event_id \in DOMAIN events
      [] k = 6 -> Cardinality({t \in DOMAIN tickets : tickets[t].event_id = body.event_id})
                      < events[body.event_id].max_tick
      [] k = 7 -> TicketSchemaValid(CT_TicketDoc(body, nextId))
      [] OTHER -> TRUE

\* the earliest check the body violates, 8 when it violates none
RECURSIVE CT_FirstViolatedFrom(_, _)
CT_FirstViolatedFrom(body, k) ==
    IF k > 7 THEN 8
    ELSE IF ~CT_Passes(body, k) THEN k
    ELSE CT_FirstViolatedFrom(body, k + 1)

MaxAdmEvents == 1

Callers == {"admin", "staff", "student", "ghost"}

GrantBody(has, creator_id, new_admin_id, event_id) ==
    [has |-> has, creator_id |-> creator_id, new_admin_id |-> new_admin_id,
     event_id |-> event_id]

AdmCreateEventBodies ==
    {EventBody(MandatoryEventFields, "admin", 1, r, MkDate(0, 0, 0), MkDate(1, 0, 0),
               1, NoStr) : r \in {2, 3}}

AdmGrantBodies ==
    {GrantBody({"creator_id", "new_admin_id", "event_id"}, c, n, e) :
        c \in Callers, n \in {"staff", "student"}, e \in DOMAIN events \cup {NoSuchId}}
    \cup {GrantBody({"creator_id", "event_id"}, "admin", NoStr, e) : e \in DOMAIN events}

AdmPatches ==
    {Patch(e, u, {"max_tick"}, NoId, NoId, NoStr, NoStr, m) :
        e \in DOMAIN events \cup {NoSuchId}, u \in Callers, m \in {MaxCap}}

AdmDeleteBodies ==
    {DeleteBody(e, u) : e \in DOMAIN events \cup {NoSuchId}, u \in Callers}

AdmTicketBodies == {TicketBody("student", e, "a@x.com") : e \in DOMAIN events}

AdmCreateEvent ==
    /\ Cardinality(DOMAIN events) < MaxAdmEvents
    /\ \E body \in AdmCreateEventBodies : create_event(body)

AdmGrant == \E body \in AdmGrantBodies : grant_event_adminship(body)

AdmUpdateEvent == \E body \in AdmPatches : update_event(body)

AdmDeleteEvent == \E body \in AdmDeleteBodies : delete_event(body)

AdmCreateTicket == \E body \in AdmTicketBodies : create_ticket(body)

NextAdmins ==
    \/ AdmCreateEvent
    \/ AdmGrant
    \/ AdmUpdateEvent
    \/ AdmDeleteEvent
    \/ AdmCreateTicket

SpecAdmins == Init /\ [][NextAdmins]_vars

\* C15: update_event succeeds only for a user who is in the creator_id of
\* the event and is authorized; an authorized user who is not in creator_id
\* is answered forbidden and the event stays as it was.
C15_UpdateByCreatorOnly ==
    [][last'.op = "update_event"
          => LET e == last'.event_id
                 u == last'.user_id
             IN  /\ last'.err = "ok"
                      => InList(u, events[e].creator_id) /\ users[u].auth
                 /\ (/\ e \in DOMAIN events /\ u \in DOMAIN users /\ users[u].auth
                     /\ ~InList(u, events[e].creator_id))
                      => last'.err = "Forbidden" /\ events' = events
      ]_vars

\* C16: delete_event deletes the event and its tickets exactly when the
\* event exists, the user exists, and the user is authorized or is in the
\* creator_id of the event; otherwise it answers an error and deletes nothing.
C16_DeleteIffAllowed ==
    [][last'.op = "delete_event"
          => LET e == last'.event_id
                 u == last'.user_id
                 allowed == /\ e \in DOMAIN events
                            /\ u \in DOMAIN users
                            /\ users[u].auth \/ InList(u, events[e].creator_id)
             IN  IF allowed
                 THEN /\ last'.err = "ok"
                      /\ DOMAIN events' = DOMAIN events \ {e}
                      /\ DOMAIN tickets'
                            = {t \in DOMAIN tickets : tickets[t].event_id # e}
                 ELSE /\ last'.err # "ok"
                      /\ events' = events
                      /\ tickets' = tickets
      ]_vars

\* student, who is not authorized, was granted adminship and has deleted
\* the event
C16_Witness ==
    /\ last.op = "delete_event"
    /\ last.err = "ok"
    /\ last.user_id = "student"
    /\ last.event_id \notin DOMAIN events

\* C17: after any grant_event_adminship calls the creator_id of an event
\* holds each id at most once; granting adminship to an id already in
\* creator_id succeeds and leaves the list as it was.
C17_GrantIdempotent ==
    [][/\ \A e \in DOMAIN events' :
            \A i, j \in 1..Len(events'[e].creator_id) :
                i # j => events'[e].creator_id[i] # events'[e].creator_id[j]
       /\ \A body \in AdmGrantBodies :
            (/\ grant_event_adminship(body)
             /\ body.event_id \in DOMAIN events
             /\ InList(body.creator_id, events[body.event_id].creator_id)
             /\ InList(body.new_admin_id, events[body.event_id].creator_id))
              => last'.err = "ok" /\ events' = events
      ]_vars

\* a creator granted adminship to an id that was in creator_id already: the
\* caller, who is in the list, named itself
C17_Witness ==
    /\ last.op = "grant_event_adminship"
    /\ last.err = "ok"
    /\ last.new_admin_id = last.user_id
    /\ last.event_id \in DOMAIN events
    /\ Len(events[last.event_id].creator_id) = 2

\* C18: grant_event_adminship changes creator_id only when the caller is in
\* the creator_id of the event; a caller who is not is answered forbidden
\* and creator_id stays as it was.
C18_GrantByCreatorOnly ==
    [][last'.op = "grant_event_adminship"
          => LET e == last'.event_id
                 u == last'.user_id
             IN  /\ events' # events => InList(u, events[e].creator_id)
                 /\ (/\ e \in DOMAIN events
                     /\ u # NoStr /\ last'.new_admin_id # NoStr
                     /\ ~InList(u, events[e].creator_id))
                      => last'.err = "Forbidden" /\ events' = events
      ]_vars

\* staff, authorized but no creator of the event, was refused
C18_Witness ==
    /\ last.op = "grant_event_adminship"
    /\ last.err = "Forbidden"
    /\ last.user_id = "staff"
    /\ last.new_admin_id = "student"

(***************************************************************************)
(* SpecValidation: tickets of one event are created, validated, updated    *)
(* and deleted, and the event is updated.                                  *)
(***************************************************************************)
MaxValEvents == 1

\* a code that is not the event's
WrongCode == "000000"

ValidateBody(has, ticket_id, user_id, code) ==
    [has |-> has, ticket_id |-> ticket_id, user_id |-> user_id, code |-> code]

ValCreateEventBodies ==
    {EventBody(MandatoryEventFields, "admin", 1, 2, MkDate(0, 0, 0), MkDate(1, 0, 0),
               MaxCap, NoStr)}

ValUpdateEventBodies ==
    {Patch(e, "admin", {"max_tick"}, NoId, NoId, NoStr, NoStr, m) :
        e \in DOMAIN events, m \in {1, MaxCap}}

ValTicketBodies ==
    {TicketBody(u, e, m) : u \in {"student", "staff"}, e \in DOMAIN events, m \in Emails}

ValidateBodies ==
    {ValidateBody({"ticket_id", "user_id", "code"}, t, u, c) :
        t \in DOMAIN tickets \cup {NoSuchId}, u \in {"student", "staff"},
        c \in Codes \cup {WrongCode}}
    \cup {ValidateBody({"ticket_id", "user_id"}, t, "student", NoStr) : t \in DOMAIN tickets}

ValTicketPatches ==
    {TicketPatch(t, {"validated"}, NoStr, v) : t \in DOMAIN tickets, v \in BOOLEAN}
    \cup {TicketPatch(t, {"email"}, m, FALSE) : t \in DOMAIN tickets, m \in Emails}

ValCreateEvent ==
    /\ Cardinality(DOMAIN events) < MaxValEvents
    /\ \E body \in ValCreateEventBodies : create_event(body)

ValUpdateEvent == \E body \in ValUpdateEventBodies : update_event(body)

ValCreateTicket ==
    /\ Cardinality(DOMAIN tickets) < MaxCap
    /\ \E body \in ValTicketBodies : create_ticket(body)

ValidateTicket == \E body \in ValidateBodies : validate_ticket(body)

ValUpdateTicket == \E body \in ValTicketPatches : update_ticket(body)

ValDeleteTicket == \E t \in DOMAIN tickets : delete_ticket(t)

NextValidation ==
    \/ ValCreateEvent
    \/ ValUpdateEvent
    \/ ValCreateTicket
    \/ ValidateTicket
    \/ ValUpdateTicket
    \/ ValDeleteTicket

SpecValidation == Init /\ [][NextValidation]_vars

\* C19: a ticket whose validated is true keeps validated true, for as long
\* as it is stored, across validate_ticket, update_ticket, create_ticket
\* and update_event.
C19_ValidatedStaysTrue ==
    [][last'.op \in {"validate_ticket", "update_ticket", "create_ticket", "update_event"}
          => \A t \in DOMAIN tickets \cap DOMAIN tickets' :
                tickets[t].validated = TRUE => tickets'[t].validated = TRUE
      ]_vars

\* C20: a ticket is created with validated false, and validated becomes
\* true only by a validate_ticket call that names the ticket, its own
\* user_id and the code of its event.
C20_ValidatedOnlyByOwnerWithCode ==
    [][/\ \A t \in DOMAIN tickets' \ DOMAIN tickets : tickets'[t].validated = FALSE
       /\ \A t \in DOMAIN tickets \cap DOMAIN tickets' :
            (tickets[t].validated = FALSE /\ tickets'[t].validated = TRUE)
              => \E body \in ValidateBodies :
                    /\ validate_ticket(body)
                    /\ body.ticket_id = t
                    /\ body.user_id = tickets[t].user_id
                    /\ tickets[t].event_id \in DOMAIN events
                    /\ body.code = events[tickets[t].event_id].code
      ]_vars

\* C21: validate_ticket, given a ticket_id, a user_id and a code, sets
\* validated to true exactly when the ticket exists, is the user's and its
\* event has the code; otherwise the ticket stays as it was, the answer is
\* the not-owner error when the user does not match, whatever the code, and
\* the invalid-code error when only the code is wrong.
C21_ValidateIffOwnerAndCode ==
    [][last'.op = "validate_ticket"
          => \A body \in ValidateBodies :
                (validate_ticket(body) /\ "code" \in body.has)
                  => LET t == body.ticket_id
                         exists == t \in DOMAIN tickets
                         owner == exists /\ tickets[t].user_id = body.user_id
                         coded == /\ exists
                                  /\ tickets[t].event_id \in DOMAIN events
                                  /\ events[tickets[t].event_id].code = body.code
                     IN  IF owner /\ coded
                         THEN /\ last'.err = "ok"
                              /\ tickets'[t].validated = TRUE
                              /\ tickets' = [tickets EXCEPT ![t].validated = TRUE]
                         ELSE /\ tickets' = tickets
                              /\ last'.err # "ok"
                              /\ (exists /\ ~owner) => last'.err = "NotOwner"
                              /\ (owner /\ ~coded) => last'.err = "InvalidCode"
      ]_vars

\* the owner gave a wrong code: the invalid-code answer, and the ticket is
\* still not validated
C21_Witness ==
    /\ last.op = "validate_ticket"
    /\ last.err = "InvalidCode"
    /\ last.ticket_id \in DOMAIN tickets
    /\ tickets[last.ticket_id].validated = FALSE
    /\ tickets[last.ticket_id].user_id = last.user_id

\* a persisted event of the room of the body whose interval meets the
\* body's: existing.start < new.end and new.start < existing.end, as instants
ConflictingEvents(body) ==
    {e \in DOMAIN events :
        /\ events[e].location_id = body.location_id
        /\ events[e].room_id = body.room_id
        /\ isoparse(events[e].start_date) < isoparse(body.end_date)
        /\ isoparse(body.start_date) < isoparse(events[e].end_date)}

\* C22: a create_event that passes the checks before the room-conflict
\* check is rejected as a room conflict exactly when a persisted event of
\* the same location and room has start < new end and new start < end;
\* back-to-back events and events of other rooms are no conflict.
C22_ConflictIffOverlap ==
    [][last'.op = "create_event"
          => \A body \in CreateEventBodies :
                (create_event(body) /\ CE_FirstViolatedFrom(body, 1) >= 11)
                  => (last'.err = "RoomConflict" <=> ConflictingEvents(body) # {})
      ]_vars

\* C23: a create_ticket that passes the checks before the capacity check is
\* answered event-full, the tickets store unchanged, exactly when the event
\* has max_tick tickets or more; otherwise it succeeds and adds one ticket.
C23_FullIffCountReachesMaxTick ==
    [][last'.op = "create_ticket"
          => \A body \in CreateTicketBodies :
                (create_ticket(body) /\ CT_FirstViolatedFrom(body, 1) >= 6)
                  => IF Cardinality({t \in DOMAIN tickets :
                                        tickets[t].event_id = body.event_id})
                          >= events[body.event_id].max_tick
                     THEN last'.err = "EventFull" /\ tickets' = tickets
                     ELSE /\ last'.err = "ok"
                          /\ Cardinality(DOMAIN tickets' \ DOMAIN tickets) = 1
                          /\ \A t \in DOMAIN tickets :
                                t \in DOMAIN tickets' /\ tickets'[t] = tickets[t]
      ]_vars

\* a ticket was refused for an event that holds exactly max_tick tickets
C23_Witness ==
    /\ last.op = "create_ticket"
    /\ last.err = "EventFull"
    /\ last.event_id \in DOMAIN events
    /\ TicketsCount(tickets, last.event_id) = events[last.event_id].max_tick

\* the persisted events other than event_doc itself that hold its room
\* during its interval
OtherConflictingEvents(event_doc) ==
    ConflictingEvents(event_doc) \ {event_doc.event_id}

\* the patch changes the room, the location or the interval of the event
MovesBooking(event_doc, merged) ==
    \/ merged.room_id # event_doc.room_id
    \/ merged.location_id # event_doc.location_id
    \/ merged.start_date # event_doc.start_date
    \/ merged.end_date # event_doc.end_date

\* C24: an update_event that changes room_id, location_id, start_date or
\* end_date, passes the other checks, and whose merged room and interval
\* overlap another persisted event is rejected as a room conflict and the
\* stored event stays as it was; so for a patch of the dates alone.
C24_UpdateConflictRejected ==
    [][last'.op = "update_event"
          => \A body \in UpdateEventBodies :
                (/\ update_event(body)
                 /\ body.event_id \in DOMAIN events
                 /\ UE_UserError(UserQuery(users, body.user_id)) = "ok"
                 /\ LET merged == UE_Merged(events[body.event_id], body)
                    IN  /\ UE_FieldError(merged) = "ok"
                        /\ UE_LocationError(merged, locations) = "ok"
                        /\ UE_UrlError(merged) = "ok"
                        /\ RoomCapacity(locations, merged) >= merged.max_tick
                        /\ MovesBooking(events[body.event_id], merged)
                        /\ OtherConflictingEvents(merged) # {})
                  => last'.err = "RoomConflict" /\ events' = events
      ]_vars

(***************************************************************************)
(* SpecRebook: the events of one room are created and their dates are      *)
(* patched, alone or together with max_tick; the timestamps are whole and  *)
(* half seconds.                                                           *)
(***************************************************************************)
RebookDates ==
    {MkDate(0, 0, 0), MkDate(0, 5, 0), MkDate(1, 0, 0), MkDate(1, 5, 0), MkDate(2, 0, 0)}

RebookEventBodies ==
    {EventBody(MandatoryEventFields, "admin", 1, 2, d1, d2, 1, NoStr) :
        d1 \in RebookDates, d2 \in RebookDates}

RebookPatches ==
    {Patch(e, "admin", keys, NoId, NoId, d, d, 1) :
        e \in DOMAIN events, d \in RebookDates,
        keys \in {{"start_date"}, {"end_date"},
                  {"max_tick", "start_date"}, {"max_tick", "end_date"}}}

RebookCreateEvent ==
    /\ Cardinality(DOMAIN events) < MaxEvents
    /\ \E body \in RebookEventBodies : create_event(body)

RebookUpdateEvent == \E body \in RebookPatches : update_event(body)

NextRebook ==
    \/ RebookCreateEvent
    \/ RebookUpdateEvent

SpecRebook == Init /\ [][NextRebook]_vars

\* C25: an update_event that keeps the room of the event and changes its
\* start_date or end_date to an interval that overlaps the event's own
\* stored interval and no other event of the room is not answered with the
\* room-conflict error.
C25_OwnBookingExcluded ==
    [][last'.op = "update_event"
          => \A body \in RebookPatches :
                (/\ update_event(body)
                 /\ body.event_id \in DOMAIN events
                 /\ LET stored == events[body.event_id]
                        merged == UE_Merged(stored, body)
                    IN  /\ UE_FieldError(merged) = "ok"
                        /\ MovesBooking(stored, merged)
                        /\ merged.room_id = stored.room_id
                        /\ merged.location_id = stored.location_id
                        /\ isoparse(stored.start_date) < isoparse(merged.end_date)
                        /\ isoparse(merged.start_date) < isoparse(stored.end_date)
                        /\ OtherConflictingEvents(merged) = {})
                  => last'.err # "RoomConflict"
      ]_vars

(***************************************************************************)
(* SpecRead: events are created, some with tags and with a start written   *)
(* in another zone, tickets are issued, and events are read back.          *)
(***************************************************************************)
GetEventArgs(user_id, event_id, code) ==
    [user_id |-> user_id, event_id |-> event_id, code |-> code]

ReadEventBodies ==
    {[EventBody(has, "admin", 1, r, d, MkDate(1, 0, 0), 1, NoStr)
        EXCEPT !.tags = IF "tags" \in has THEN <<"Lecture">> ELSE <<>>] :
        has \in {MandatoryEventFields, MandatoryEventFields \cup {"tags"}},
        r \in {2, 3}, d \in {MkDate(0, 0, 0), MkDate(1, 0, 1)}}

ReadTicketBodies ==
    {TicketBody(u, e, "a@x.com") : u \in {"student", "staff"}, e \in DOMAIN events}

ReadArgs ==
    {GetEventArgs(u, e, c) :
        u \in {NoStr, "student", "staff", "ghost"},
        e \in {NoId, NoSuchId} \cup DOMAIN events,
        c \in {NoStr, WrongCode} \cup Codes}

ReadCreateEvent ==
    /\ Cardinality(DOMAIN events) < MaxEvents
    /\ \E body \in ReadEventBodies : create_event(body)

ReadCreateTicket ==
    /\ Cardinality(DOMAIN tickets) < MaxCap
    /\ \E body \in ReadTicketBodies : create_ticket(body)

ReadGetEvent == \E args \in ReadArgs : get_event(args)

NextRead ==
    \/ ReadCreateEvent
    \/ ReadCreateTicket
    \/ ReadGetEvent

SpecRead == Init /\ [][NextRead]_vars

\* C26: after a successful create_event, get_event with the returned
\* event_id alone answers one document whose name, groups, desc,
\* location_id, room_id, start_date, end_date, max_tick and tags are those
\* of the request, the dates converted to UTC.
C26_ReadBackEqualsRequest ==
    [][(last'.op = "create_event" /\ last'.err = "ok")
          => \A body \in ReadEventBodies :
                create_event(body)
                  => LET r == GetEventResult(events', tickets', users', locations',
                                             GetEventArgs(NoStr, last'.event_id, NoStr))
                     IN  /\ r.err = "ok"
                         /\ \E doc \in r.events :
                              /\ r.events = {doc}
                              /\ doc.name = body.name
                              /\ doc.groups = body.groups
                              /\ doc.desc = body.desc
                              /\ doc.location_id = body.location_id
                              /\ doc.room_id = body.room_id
                              /\ doc.start_date = format_UTC_0(body.start_date)
                              /\ doc.end_date = format_UTC_0(body.end_date)
                              /\ doc.max_tick = body.max_tick
                              /\ doc.tags = IF "tags" \in body.has THEN body.tags ELSE <<>>
      ]_vars

\* a second event, with a tag, has been created and is stored with its
\* start in UTC
C26_Witness ==
    /\ last.op = "create_event"
    /\ last.err = "ok"
    /\ events[last.event_id].tags = <<"Lecture">>
    /\ events[last.event_id].start_date = MkDate(0, 0, 0)
    /\ Cardinality(DOMAIN events) = 2

\* C27: after a successful create_event the new event_id is once in the
\* events_ids of the location of the event, once in those of the selected
\* room and in those of no other room, and the rest of the location
\* document, and every other location, is as it was before the call.
C27_LocationGainsOneReference ==
    [][(last'.op = "create_event" /\ last'.err = "ok")
          => LET e == last'.event_id
                 l == events'[e].location_id
                 r == events'[e].room_id
                 old == locations[l]
                 new == locations'[l]
                 Count(ids) == Cardinality({i \in 1..Len(ids) : ids[i] = e})
                 Others(ids) == SelectSeq(ids, LAMBDA x : x # e)
             IN  /\ DOMAIN locations' = DOMAIN locations
                 /\ \A k \in DOMAIN locations \ {l} : locations'[k] = locations[k]
                 /\ Count(new.events_ids) = 1
                 /\ Others(new.events_ids) = old.events_ids
                 /\ [new EXCEPT !.events_ids = <<>>, !.rooms = <<>>]
                      = [old EXCEPT !.events_ids = <<>>, !.rooms = <<>>]
                 /\ Len(new.rooms) = Len(old.rooms)
                 /\ \A i \in 1..Len(old.rooms) :
                      /\ Count(new.rooms[i].events_ids)
                            = IF new.rooms[i].room_id = r THEN 1 ELSE 0
                      /\ Others(new.rooms[i].events_ids) = old.rooms[i].events_ids
                      /\ [new.rooms[i] EXCEPT !.events_ids = <<>>]
                            = [old.rooms[i] EXCEPT !.events_ids = <<>>]
      ]_vars

\* a second event has been created, in the second room of a location that
\* held the first event in its first room
C27_Witness ==
    /\ last.op = "create_event"
    /\ last.err = "ok"
    /\ locations[1].events_ids = <<last.event_id - 1, last.event_id>>
    /\ locations[1].rooms[1].events_ids = <<last.event_id - 1>>
    /\ locations[1].rooms[2].events_ids = <<last.event_id>>

\* C28: create_event succeeds only for a user_id that is the id of a stored
\* user with auth true, and the stored event then has creator_id equal to
\* the one-element list of that user_id; a call by a stored user with auth
\* false fails, with the not-authorized error unless an earlier check
\* failed, and leaves events and locations as they were.
C28_CreatorIsAuthorizedUser ==
    [][last'.op = "create_event"
          => LET user_items == UserQuery(users, last'.user_id)
             IN  /\ last'.err = "ok"
                      => /\ user_items # <<>>
                         /\ user_items[1].auth
                         /\ events'[last'.event_id].creator_id = <<last'.user_id>>
                 /\ (user_items # <<>> /\ ~user_items[1].auth)
                      => /\ last'.err # "ok"
                         /\ (CE_CheckOf(last'.err) >= 5 => last'.err = "Unauthorized")
                         /\ events' = events
                         /\ locations' = locations
      ]_vars

\* a stored user without auth has been refused as not authorized while an
\* event created by an authorized user is stored
C28_Witness ==
    /\ last.op = "create_event"
    /\ last.err = "Unauthorized"
    /\ UserQuery(users, last.user_id) # <<>>
    /\ ~UserQuery(users, last.user_id)[1].auth
    /\ \E e \in DOMAIN events : events[e].creator_id = <<"admin">>

\* C29: once a delete_event has returned success for an event_id, a
\* delete_event or create_ticket call naming that event_id that has made no
\* store query yet returns a not-found error from its first query if it
\* returns there (unless the store call itself raises), and no event with
\* that event_id is stored again.
C29_DeletedIsTerminal ==
    [][LET Deleted(e) ==
               \E q \in DOMAIN pc : /\ rq[q].op = "delete_event"
                                    /\ rq[q].body.event_id = e
                                    /\ pc[q] = "done"
                                    /\ rq[q].err = "ok"
       IN  /\ \A e \in DOMAIN events' : ~Deleted(e)
           /\ \A p \in DOMAIN pc :
                 (/\ pc[p] \in {"ct_email", "de_event"}
                  /\ Deleted(rq[p].body.event_id)
                  /\ pc'[p] = "done")
                     => rq'[p].err \in {"EventNotFound", "UserNotFound", "InternalError"}
      ]_vars

\* C30: a get_event call with both user_id and event_id that returns the
\* event is made by a user who holds a ticket for that event.
C30_EventOnlyForTicketHolder ==
    [][(/\ last'.op = "get_event"
        /\ last'.user_id # NoStr
        /\ last'.event_id # NoId
        /\ last'.err = "ok")
          => \E t \in DOMAIN tickets : /\ tickets[t].user_id = last'.user_id
                                       /\ tickets[t].event_id = last'.event_id
      ]_vars

\* C31: a get_event call with a code and neither user_id nor event_id
\* returns one event, whose code is the given code, when an event has that
\* code, and an error when none has.
C31_CodeSelectsOneEvent ==
    [][last'.op = "get_event"
          => \A args \in ReadArgs :
               (/\ get_event(args)
                /\ args.user_id = NoStr
                /\ args.event_id = NoId
                /\ args.code # NoStr)
                  => LET r == GetEventResult(events, tickets, users, locations, args)
                         coded == {e \in DOMAIN events : events[e].code = args.code}
                     IN  IF coded = {} THEN r.err # "ok"
                         ELSE r.err = "ok" /\ \E e \in coded : r.events = {events[e]}
      ]_vars

(***************************************************************************)
(* SpecTypes: create_event and update_event with values of the wrong JSON  *)
(* type for max_tick and groups.                                           *)
(***************************************************************************)
TypeEventBodies ==
    {[EventBody(MandatoryEventFields, "admin", 1, r, d, MkDate(1, 0, 0), m, NoStr)
        EXCEPT !.groups = g] :
        r \in {2, 3}, d \in {MkDate(0, 0, 0), MkDate(0, 5, 0)},
        m \in {1, NotNumber}, g \in {<<"COMP3200">>, NotList}}

TypePatches ==
    {Patch(e, "admin", {"max_tick"}, NoId, NoId, BadDate, BadDate, m) :
        e \in DOMAIN events, m \in {0, 1, MaxCap, NotNumber}}
    \cup {Patch(e, "admin", {"start_date"}, NoId, NoId, d, BadDate, 0) :
            e \in DOMAIN events, d \in {MkDate(0, 0, 0), MkDate(0, 5, 0), BadDate}}

TypeCreateEvent ==
    /\ Cardinality(DOMAIN events) < MaxEvents
    /\ \E body \in TypeEventBodies : create_event(body)

TypeUpdateEvent == \E body \in TypePatches : update_event(body)

NextTypes ==
    \/ TypeCreateEvent
    \/ TypeUpdateEvent

SpecTypes == Init /\ [][NextTypes]_vars

\* C32: no create_event and no update_event call answers with the generic
\* "Internal Server Error": a request whose max_tick is no number or whose
\* groups is no list is answered with the error of the validation step.
C32_NoGenericErrorOnBadInput ==
    [][last'.op \in {"create_event", "update_event"}
          => last'.err # "InternalError"]_vars

\* C33: every stored event has its start_date and end_date in the form
\* format_UTC_0 produces.
C33_DatesStoredNormalized ==
    \A e \in DOMAIN events :
        /\ events[e].start_date = format_UTC_0(events[e].start_date)
        /\ events[e].end_date = format_UTC_0(events[e].end_date)

(***************************************************************************)
(* SpecLocations: create_location, edit_location and delete_location, one  *)
(* call after another.                                                     *)
(***************************************************************************)
LocationNames == {"Building 32", "Building 16", "Building 58"}

LocCreateBodies ==
    {[has |-> {"location_name", "rooms", "events_ids"}, location_id |-> NoId,
      location_name |-> n, events_ids |-> <<>>, rooms |-> <<Room(NoId, MaxCap)>>] :
        n \in LocationNames}

LocEditBodies ==
    {[has |-> {"location_id", "location_name"}, location_id |-> l,
      location_name |-> n, events_ids |-> <<>>, rooms |-> <<>>] :
        l \in DOMAIN locations \cup {NoSuchId}, n \in LocationNames}

LocCreate == \E body \in LocCreateBodies : create_location(body)

LocEdit == \E body \in LocEditBodies : edit_location(body)

LocDelete == \E l \in DOMAIN locations \cup {NoId, NoSuchId} : delete_location(l)

NextLocations ==
    \/ LocCreate
    \/ LocEdit
    \/ LocDelete

SpecLocations == Init /\ [][NextLocations]_vars

\* C34: no two stored locations have the same location_name.
C34_LocationNamesUnique ==
    \A l1, l2 \in DOMAIN locations :
        locations[l1].location_name = locations[l2].location_name => l1 = l2

\* C35: the events_ids of every location name exactly the stored events with
\* that location_id, and the events_ids of every room name exactly the
\* stored events with that location_id and room_id.
C35_RefsAreTheBoundEvents ==
    \A l \in DOMAIN locations :
        /\ RefsOf(locations[l].events_ids)
              = {e \in DOMAIN events : events[e].location_id = l}
        /\ \A i \in 1..Len(locations[l].rooms) :
              RefsOf(locations[l].rooms[i].events_ids)
                = {e \in DOMAIN events :
                      /\ events[e].location_id = l
                      /\ events[e].room_id = locations[l].rooms[i].room_id}

\* C36: when two create_event calls for different rooms of one location
\* have both returned success, the location names both new events in its
\* events_ids and each of them in the events_ids of its room.
C36_BothReferencesKept ==
    \A p, q \in DOMAIN pc :
        (/\ p # q
         /\ rq[p].op = "create_event" /\ rq[q].op = "create_event"
         /\ pc[p] = "done" /\ pc[q] = "done"
         /\ rq[p].err = "ok" /\ rq[q].err = "ok"
         /\ rq[p].body.location_id = rq[q].body.location_id
         /\ rq[p].body.room_id # rq[q].body.room_id)
            => LET loc == locations[rq[p].body.location_id]
                   RoomRefs(r) == RefsOf(loc.rooms[SelectedRoom(loc.rooms, r)].events_ids)
               IN  /\ {rq[p].id, rq[q].id} \subseteq RefsOf(loc.events_ids)
                   /\ rq[p].id \in RoomRefs(rq[p].body.room_id)
                   /\ rq[q].id \in RoomRefs(rq[q].body.room_id)

(***************************************************************************)
(* update_event and grant_event_adminship, store call by store call        *)
(***************************************************************************)
UE_Begin(p, body) ==
    /\ Call(p, "update_event", body, "ue_event",
            IF body.event_id = NoId \/ body.user_id = NoStr THEN "MissingField" ELSE "ok")
    /\ UNCHANGED <<events, locations, tickets, users, nextId, last>>

\* items = list(EventsContainerProxy.query_items(...)); event_doc = items[0]
UE_ReadEvent(p) ==
    /\ At(p, "ue_event")
    /\ LET items == EventQuery(events, rq[p].body.event_id)
       IN  IF items = <<>> THEN Return(p, "EventNotFound")
           ELSE /\ Goto(p, "ue_user")
                /\ rq' = [rq EXCEPT ![p].doc = items[1]]
    /\ UNCHANGED <<events, locations, tickets, users, nextId, last>>

\* user_items = list(UsersContainerProxy.query_items(...))
UE_ReadUser(p) ==
    /\ At(p, "ue_user")
    /\ LET err == UE_UserError(UserQuery(users, rq[p].body.user_id))
       IN  IF err # "ok" THEN Return(p, err)
           ELSE Goto(p, "ue_replace") /\ UNCHANGED rq
    /\ UNCHANGED <<events, locations, tickets, users, nextId, last>>

\* the body is merged into the event_doc read at ue_event, the merged
\* document is validated and written whole with replace_item
UE_Replace(p) ==
    /\ At(p, "ue_replace")
    /\ LET event_doc == UE_Merged(rq[p].doc, rq[p].body)
           err == IF UE_FieldError(event_doc) # "ok" THEN UE_FieldError(event_doc)
                  ELSE IF UE_LocationError(event_doc, locations) # "ok"
                       THEN UE_LocationError(event_doc, locations)
                  ELSE IF UE_UrlError(event_doc) # "ok" THEN UE_UrlError(event_doc)
                  ELSE IF UE_RoomError(event_doc, rq[p].body, locations, events) # "ok"
                       THEN UE_RoomError(event_doc, rq[p].body, locations, events)
                  ELSE IF ~EventSchemaValid(event_doc) THEN "SchemaViolation"
                  ELSE IF event_doc.event_id \notin DOMAIN events THEN "InternalError"
                  ELSE "ok"
       IN  /\ events' = IF err = "ok" THEN Put(events, event_doc.event_id, event_doc)
                        ELSE events
           /\ Return(p, err)
    /\ UNCHANGED <<locations, tickets, users, nextId, last>>

GA_Begin(p, body) ==
    /\ Call(p, "grant_event_adminship", body, "ga_event",
            IF \/ {"creator_id", "new_admin_id", "event_id"} \ body.has # {}
               \/ body.creator_id = NoStr \/ body.new_admin_id = NoStr
               \/ body.event_id = NoId
            THEN "MissingField" ELSE "ok")
    /\ UNCHANGED <<events, locations, tickets, users, nextId, last>>

\* the event is fetched and the caller looked up in its creator_id; a
\* new_admin_id already in the list is answered 200 with no write
GA_ReadEvent(p) ==
    /\ At(p, "ga_event")
    /\ LET items == EventQuery(events, rq[p].body.event_id)
       IN  IF items = <<>> THEN Return(p, "EventNotFound")
           ELSE IF ~InList(rq[p].body.creator_id, items[1].creator_id)
                THEN Return(p, "Forbidden")
           ELSE IF InList(rq[p].body.new_admin_id, items[1].creator_id)
                THEN Return(p, "ok")
           ELSE /\ Goto(p, "ga_replace")
                /\ rq' = [rq EXCEPT ![p].doc = items[1]]
    /\ UNCHANGED <<events, locations, tickets, users, nextId, last>>

\* event_doc["creator_id"].append(new_admin_id), jsonschema.validate and
\* replace_item of the event_doc read at ga_event
GA_Replace(p) ==
    /\ At(p, "ga_replace")
    /\ LET event_doc == GA_WithAdmin(rq[p].doc, rq[p].body.new_admin_id)
           err == IF ~EventSchemaValid(event_doc) THEN "SchemaViolation"
                  ELSE IF event_doc.event_id \notin DOMAIN events THEN "InternalError"
                  ELSE "ok"
       IN  /\ events' = IF err = "ok" THEN Put(events, event_doc.event_id, event_doc)
                        ELSE events
           /\ Return(p, err)
    /\ UNCHANGED <<locations, tickets, users, nextId, last>>

(***************************************************************************)
(* SpecRaceAdmins: grant_event_adminship and update_event calls in flight  *)
(* together on one stored event.                                           *)
(***************************************************************************)
InitRaceAdmins ==
    /\ InitWithEvent(1)
    /\ tickets = <<>>
    /\ nextId = 5

RaceGrantBodies ==
    {GrantBody({"creator_id", "new_admin_id", "event_id"}, c, n, 4) :
        c \in {"admin", "student"}, n \in {"staff", "student"}}

RaceAdminPatches ==
    {Patch(4, u, {"max_tick"}, NoId, NoId, BadDate, BadDate, m) :
        u \in {"admin", "student"}, m \in 1..MaxCap}

NextRaceAdmins ==
    \E p \in Procs :
        \/ \E body \in RaceGrantBodies : GA_Begin(p, body)
        \/ GA_ReadEvent(p)
        \/ GA_Replace(p)
        \/ \E body \in RaceAdminPatches : UE_Begin(p, body)
        \/ UE_ReadEvent(p)
        \/ UE_ReadUser(p)
        \/ UE_Replace(p)

SpecRaceAdmins == InitRaceAdmins /\ [][NextRaceAdmins]_vars

\* C37: once a grant_event_adminship call has returned success, its
\* new_admin_id is in the creator_id list of the event, in that state and in
\* every later one.
C37_GrantedAdminStays ==
    \A p \in DOMAIN pc :
        (/\ rq[p].op = "grant_event_adminship"
         /\ pc[p] = "done"
         /\ rq[p].err = "ok")
            => /\ rq[p].body.event_id \in DOMAIN events
               /\ InList(rq[p].body.new_admin_id,
                         events[rq[p].body.event_id].creator_id)

(***************************************************************************)
(* SpecIdentity: create_event, grant_event_adminship, delete_event and     *)
(* update_event with patches that name code and creator_id, one call after *)
(* another.                                                                *)
(***************************************************************************)
\* the patches that raise max_tick to MaxCap name code and creator_id too;
\* create_event stores max_tick 1
IdPatches ==
    {Patch(e, "admin", {"max_tick"}, NoId, NoId, NoStr, NoStr, 1) :
        e \in DOMAIN events \cup {NoSuchId}}
    \cup {[code |-> c, creator_id |-> a]
            @@ Patch(e, "admin", {"max_tick", "code", "creator_id"}, NoId, NoId,
                     NoStr, NoStr, MaxCap) :
            e \in DOMAIN events, c \in {WrongCode}, a \in {<<>>, <<"student">>}}

IdGrantBodies ==
    {GrantBody({"creator_id", "new_admin_id", "event_id"}, "admin", n, e) :
        n \in {"staff", "student"}, e \in DOMAIN events}

IdCreateEvent ==
    /\ Cardinality(DOMAIN events) < MaxAdmEvents
    /\ \E body \in AdmCreateEventBodies : create_event(body)

IdUpdateEvent == \E body \in IdPatches : update_event(body)

IdGrant == \E body \in IdGrantBodies : grant_event_adminship(body)

IdDeleteEvent ==
    \E e \in DOMAIN events, u \in {"admin", "student"} : delete_event(DeleteBody(e, u))

NextIdentity ==
    \/ IdCreateEvent
    \/ IdUpdateEvent
    \/ IdGrant
    \/ IdDeleteEvent

SpecIdentity == Init /\ [][NextIdentity]_vars

\* C38: an update_event call leaves the event_id, the code and the creator_id
\* of every stored event as they were and stores and removes no event; and
\* over any call, an event that stays stored keeps its code, its creator_id
\* is never empty and the list it had is a prefix of the list it has.
C38_IdentityFieldsKept ==
    [][/\ last'.op = "update_event"
            => /\ DOMAIN events' = DOMAIN events
               /\ \A e \in DOMAIN events :
                     /\ events'[e].event_id = events[e].event_id
                     /\ events'[e].code = events[e].code
                     /\ events'[e].creator_id = events[e].creator_id
       /\ \A e \in DOMAIN events' : events'[e].creator_id # <<>>
       /\ \A e \in DOMAIN events \cap DOMAIN events' :
             /\ events'[e].code = events[e].code
             /\ Len(events'[e].creator_id) >= Len(events[e].creator_id)
             /\ SubSeq(events'[e].creator_id, 1, Len(events[e].creator_id))
                   = events[e].creator_id
      ]_vars

\* an update_event naming another code and another creator_id has succeeded
\* on an event that has two admins
C38_Witness ==
    /\ last.op = "update_event"
    /\ last.err = "ok"
    /\ last.event_id \in DOMAIN events
    /\ events[last.event_id].max_tick = MaxCap
    /\ events[last.event_id].code \in Codes
    /\ Len(events[last.event_id].creator_id) = 2

====
